---- MODULE Spec2Model ----
(***************************************************************************)
(* A model of pluginrpc-go: the Procedure/Spec constructors, the flag and  *)
(* wire layer, the Handler and Server dispatch, the Runners and the        *)
(* Client's memoized handshake and Call.                                   *)
(*                                                                         *)
(* Strings whose characters the code inspects (args, paths, flag values,   *)
(* the --protocol output) are sequences of one-character strings.  Error   *)
(* messages, which the code only tests for emptiness and copies, are       *)
(* plain strings.                                                          *)
(***************************************************************************)
EXTENDS Integers, Sequences, FiniteSets, TLC

VARIABLES
    client,     \* the client struct: runner, format, spec, specErr, lock
    callers,    \* per goroutine: its position in Spec()/Call and its locals
    runs,       \* what the Runner has been asked to run so far
    last,       \* the Spec() or Call that returned last: its inputs and results
    plugin,     \* the plugin behind the Runner: its Server, what its handlers answer
    srv,        \* one direct Handle / Serve / Main invocation on the server side
    ctor,       \* one invocation of a constructor: Procedure, Spec, Error, ExitError
    reg,        \* a serverRegistrar, the goroutines calling Register, and NewServer
    heap,       \* the slices behind a Spec and those its accessors handed out
    child       \* the commands the subprocess runner starts, and the host environment

vars == <<client, callers, runs, last, plugin, srv, ctor, reg, heap, child>>

(***************************************************************************)
(* Bounds of the model.                                                    *)
(***************************************************************************)
NumCallers == 2
MaxProcs == 3
MaxSpecs == 3

Callers == 1..NumCallers

(* A component that does not exist in the specification at hand. *)
Unused == "unused"

SeqsUpTo(S, n) == UNION {[1..k -> S] : k \in 0..n}

(***************************************************************************)
(* Generic helpers.                                                        *)
(***************************************************************************)
Range(s) == {s[i] : i \in 1..Len(s)}

RECURSIVE Concat(_)
Concat(ss) == IF ss = <<>> THEN <<>> ELSE Head(ss) \o Concat(Tail(ss))

(* strings.Join(elems, sep) *)
RECURSIVE Join(_, _)
Join(elems, sep) ==
    IF elems = <<>> THEN <<>>
    ELSE IF Len(elems) = 1 THEN elems[1]
    ELSE elems[1] \o sep \o Join(Tail(elems), sep)

IsSpace(c) == c \in {" ", "\n", "\t", "\r"}

RECURSIVE TrimLeft(_)
TrimLeft(s) == IF s # <<>> /\ IsSpace(Head(s)) THEN TrimLeft(Tail(s)) ELSE s

RECURSIVE TrimRight(_)
TrimRight(s) ==
    IF s # <<>> /\ IsSpace(s[Len(s)]) THEN TrimRight(SubSeq(s, 1, Len(s) - 1)) ELSE s

(* strings.TrimSpace *)
TrimSpace(s) == TrimRight(TrimLeft(s))

Digits == <<"0", "1", "2", "3", "4", "5", "6", "7", "8", "9">>

IsDigit(c) == c \in Range(Digits)

DigitVal(c) == (CHOOSE i \in 1..10 : Digits[i] = c) - 1

RECURSIVE DigitsVal(_, _)
DigitsVal(s, acc) ==
    IF s = <<>> THEN acc ELSE DigitsVal(Tail(s), acc * 10 + DigitVal(Head(s)))

(* strconv.Atoi: an optional sign, then one or more decimal digits. *)
Atoi(s) ==
    LET signed == s # <<>> /\ Head(s) \in {"+", "-"}
        body == IF signed THEN Tail(s) ELSE s
    IN  IF body = <<>> \/ \E i \in 1..Len(body) : ~IsDigit(body[i])
        THEN [ok |-> FALSE, value |-> 0]
        ELSE [ok |-> TRUE,
              value |-> IF signed /\ Head(s) = "-"
                        THEN 0 - DigitsVal(body, 0) ELSE DigitsVal(body, 0)]

(* strconv.Itoa for the small non-negative values the model prints. *)
RECURSIVE Itoa(_)
Itoa(n) == IF n < 10 THEN <<Digits[n + 1]>> ELSE Itoa(n \div 10) \o <<Digits[(n % 10) + 1]>>

(***************************************************************************)
(* Format (proto.go).                                                      *)
(***************************************************************************)
FormatBinary == 1
FormatJSON == 2
minFormat == FormatBinary
maxFormat == FormatJSON

formatBinaryString == <<"b", "i", "n", "a", "r", "y">>
formatJSONString == <<"j", "s", "o", "n">>

isValidFormat(format) == format >= minFormat /\ format <= maxFormat

(* validateFormat returns nil exactly for a valid Format. *)
validateFormat(format) == isValidFormat(format)

FormatStringBinaryOnly(f) == formatBinaryString

FormatString(f) ==
    CASE f = FormatBinary -> formatBinaryString
      [] f = FormatJSON -> formatJSONString
      [] OTHER -> <<"f", "o", "r", "m", "a", "t", "_">> \o Itoa(f)

(***************************************************************************)
(* Flag names and the protocol version (flags.go).                         *)
(***************************************************************************)
protocolVersion == 1

ProtocolFlag == <<"-", "-", "p", "r", "o", "t", "o", "c", "o", "l">>
SpecFlag == <<"-", "-", "s", "p", "e", "c">>
FormatFlag == <<"-", "-", "f", "o", "r", "m", "a", "t">>

marshalProtocolBare(value) == Itoa(value)

marshalProtocol(value) == Itoa(value) \o <<"\n">>

unmarshalProtocol(data) ==
    LET dataString == TrimSpace(data)
        parsed == Atoi(dataString)
    IN  IF parsed.ok THEN [ok |-> TRUE, value |-> parsed.value]
        ELSE [ok |-> FALSE, value |-> 0]

(***************************************************************************)
(* Code (code.go).                                                         *)
(***************************************************************************)
CodeUnknown == 2
CodeDeadlineExceeded == 4
CodeInternal == 13
minCode == 1
maxCode == 16

isValidCode(code) == code >= minCode /\ code <= maxCode

CodeNames ==
    <<"canceled", "unknown", "invalid_argument", "deadline_exceeded", "not_found",
      "already_exists", "permission_denied", "resource_exhausted",
      "failed_precondition", "aborted", "out_of_range", "unimplemented", "internal",
      "unavailable", "data_loss", "unauthenticated">>

DecimalNames == <<"1", "2", "3", "4", "5", "6", "7", "8", "9">>

(* fmt's %d for the small integers the model prints. *)
RECURSIVE Decimal(_)
Decimal(n) ==
    IF n < 0 THEN "-" \o Decimal(0 - n)
    ELSE IF n = 0 THEN "0"
    ELSE IF n < 10 THEN DecimalNames[n]
    ELSE Decimal(n \div 10) \o (IF n % 10 = 0 THEN "0" ELSE DecimalNames[n % 10])

CodeString(c) == IF isValidCode(c) THEN CodeNames[c] ELSE "code_" \o Decimal(c)

(***************************************************************************)
(* Errors.  An error value is its Unwrap chain, outermost first; nil is    *)
(* the empty chain.  A layer is an *Error ("rpc"), an *ExitError ("exit"), *)
(* an fmt.Errorf wrapper with %w ("fmt", msg being the text before the     *)
(* wrapped error) or a leaf error ("plain").                               *)
(***************************************************************************)
NilErr == <<>>

RpcLayer(code) == [t |-> "rpc", code |-> code, msg |-> ""]
ExitLayer(code) == [t |-> "exit", code |-> code, msg |-> ""]
FmtLayer(msg) == [t |-> "fmt", code |-> 0, msg |-> msg]
PlainErr(msg) == <<[t |-> "plain", code |-> 0, msg |-> msg]>>

(* err.Error() *)
RECURSIVE ErrorString(_)
ErrorString(err) ==
    IF err = <<>> THEN ""
    ELSE LET h == Head(err)
             rest == Tail(err)
         IN  CASE h.t = "plain" -> h.msg
               [] h.t = "fmt" ->
                    h.msg \o (IF rest = <<>> THEN "%!w(<nil>)" ELSE ErrorString(rest))
               [] h.t = "rpc" ->
                    "Failed with code " \o CodeString(h.code)
                        \o (IF rest = <<>> THEN "" ELSE ": " \o ErrorString(rest))
               [] OTHER ->
                    "Exited with code " \o Decimal(h.code)
                        \o (IF rest = <<>> THEN "" ELSE ": " \o ErrorString(rest))

(* errors.As(err, &target) for a target of layer type t: the first such layer, *)
(* with everything it wraps; the empty chain when there is none.               *)
RECURSIVE ErrorsAs(_, _)
ErrorsAs(err, t) ==
    IF err = <<>> THEN <<>>
    ELSE IF Head(err).t = t THEN err
    ELSE ErrorsAs(Tail(err), t)

IsRpcError(err) == err # <<>> /\ Head(err).t = "rpc"
IsExitError(err) == err # <<>> /\ Head(err).t = "exit"

(* Error.Code and Error.Unwrap *)
ErrorCode(e) == IF e = <<>> THEN 0 ELSE Head(e).code
ErrorUnwrap(e) == IF e = <<>> THEN <<>> ELSE Tail(e)

newInvalidCodeError(e) ==
    <<RpcLayer(CodeInternal),
      FmtLayer("Error created with code " \o CodeString(ErrorCode(e)) \o ": ")>>
        \o ErrorUnwrap(e)

newNilUnderlyingError(e) ==
    <<RpcLayer(CodeInternal)>>
        \o PlainErr("Error created with code " \o CodeString(ErrorCode(e))
                        \o " and nil underlying error")

newEmptyUnderlyingError(e) ==
    <<RpcLayer(CodeInternal)>>
        \o PlainErr("Error created with code " \o CodeString(ErrorCode(e))
                        \o " and empty underlying error")

validateErrorCodeOnly(e) ==
    IF ~isValidCode(ErrorCode(e)) THEN newInvalidCodeError(e) ELSE e

validateError(e) ==
    LET code == ErrorCode(e)
        underlying == ErrorUnwrap(e)
    IN  IF ~isValidCode(code) THEN newInvalidCodeError(e)
        ELSE IF underlying = <<>> THEN newNilUnderlyingError(e)
        ELSE IF ErrorString(underlying) = "" THEN newEmptyUnderlyingError(e)
        ELSE e

NewError(code, underlying) == validateError(<<RpcLayer(code)>> \o underlying)

WrapErrorAsInternal(err) ==
    IF err = <<>> THEN <<>>
    ELSE IF ErrorsAs(err, "rpc") # <<>> THEN validateError(ErrorsAs(err, "rpc"))
    ELSE NewError(CodeInternal, err)

WrapError(err) ==
    IF err = <<>> THEN <<>>
    ELSE IF ErrorsAs(err, "rpc") # <<>> THEN validateError(ErrorsAs(err, "rpc"))
    ELSE NewError(CodeUnknown, err)

(* The wire form of an error: pluginrpcv1.Error, or nil. *)
NilProtoError == [present |-> FALSE, code |-> 0, message |-> ""]
ProtoError(code, message) == [present |-> TRUE, code |-> code, message |-> message]

ErrorToProtoUnknownCode(e) ==
    IF e = <<>> THEN NilProtoError
    ELSE ProtoError(CodeUnknown, ErrorString(ErrorUnwrap(validateError(e))))

ErrorToProto(e) ==
    IF e = <<>> THEN NilProtoError
    ELSE LET pluginrpcError == validateError(e)
         IN  IF ~isValidCode(ErrorCode(pluginrpcError))
             THEN ProtoError(CodeInternal,
                             "Error created with invalid code: "
                                 \o ErrorString(ErrorUnwrap(e)))
             ELSE ProtoError(ErrorCode(pluginrpcError),
                             ErrorString(ErrorUnwrap(pluginrpcError)))

NewErrorForProto(protoError) ==
    IF ~protoError.present THEN <<>>
    ELSE IF ~isValidCode(protoError.code)
    THEN NewError(CodeInternal,
                  <<FmtLayer("Error created with invalid code: "
                                 \o protoError.message \o ": ")>>
                      \o PlainErr("unknown pluginrpcv1.Code: "
                                      \o Decimal(protoError.code)))
    ELSE NewError(protoError.code, PlainErr(protoError.message))

(***************************************************************************)
(* ExitError (exit_error.go).                                              *)
(***************************************************************************)
exitCodeInternal == 1

ExitCode(e) == IF e = <<>> THEN 0 ELSE Head(e).code

newInvalidCodeExitError(exitError) ==
    <<ExitLayer(exitCodeInternal),
      FmtLayer("ExitError created with code " \o Decimal(ExitCode(exitError)) \o ": ")>>
        \o exitError

validateExitErrorUnchecked(exitError) == exitError

validateExitError(exitError) ==
    IF ExitCode(exitError) = 0 THEN newInvalidCodeExitError(exitError) ELSE exitError

NewExitError(exitCode, underlying) ==
    validateExitError(<<ExitLayer(exitCode)>> \o underlying)

WrapExitErrorAlwaysInternal(err) ==
    IF err = <<>> THEN <<>> ELSE NewExitError(exitCodeInternal, err)

WrapExitError(err) ==
    IF err = <<>> THEN <<>>
    ELSE IF ErrorsAs(err, "exit") # <<>> THEN validateExitError(ErrorsAs(err, "exit"))
    ELSE NewExitError(exitCodeInternal, err)

(***************************************************************************)
(* Procedure (procedure.go).                                               *)
(***************************************************************************)
minProcedureArgLength == 2

LowerLetters ==
    <<"a", "b", "c", "d", "e", "f", "g", "h", "i", "j", "k", "l", "m",
      "n", "o", "p", "q", "r", "s", "t", "u", "v", "w", "x", "y", "z">>

UpperLetters ==
    <<"A", "B", "C", "D", "E", "F", "G", "H", "I", "J", "K", "L", "M",
      "N", "O", "P", "Q", "R", "S", "T", "U", "V", "W", "X", "Y", "Z">>

IsLetter(c) == c \in Range(LowerLetters) \cup Range(UpperLetters)

IsAlnum(c) == IsLetter(c) \/ IsDigit(c)

(* The characters of a string as one piece of text, for messages. *)
RECURSIVE Text(_)
Text(s) == IF s = <<>> THEN "" ELSE Head(s) \o Text(Tail(s))

argRegexpMatchAnyEnds(arg) ==
    /\ Len(arg) >= 2
    /\ \A i \in 1..Len(arg) : IsAlnum(arg[i]) \/ arg[i] \in {"_", "-"}

(* argRegexp: ^[a-zA-Z0-9][a-zA-Z0-9_-]*[a-zA-Z0-9]$ *)
argRegexpMatch(arg) ==
    /\ Len(arg) >= 2
    /\ IsAlnum(arg[1])
    /\ IsAlnum(arg[Len(arg)])
    /\ \A i \in 2..(Len(arg) - 1) : IsAlnum(arg[i]) \/ arg[i] \in {"_", "-"}

(* url's getScheme: the length of the scheme before ":", 0 when there is   *)
(* none, -1 for the "missing protocol scheme" error.                       *)
RECURSIVE getScheme(_, _)
getScheme(rawURL, i) ==
    IF i > Len(rawURL) THEN 0
    ELSE LET c == rawURL[i]
         IN  IF IsLetter(c) THEN getScheme(rawURL, i + 1)
             ELSE IF IsDigit(c) \/ c \in {"+", "-", "."}
                  THEN (IF i = 1 THEN 0 ELSE getScheme(rawURL, i + 1))
             ELSE IF c = ":" THEN (IF i = 1 THEN 0 - 1 ELSE i - 1)
             ELSE 0

(* url.ParseRequestURI succeeds: no control character, and "*", a URI with *)
(* a scheme, or a path that starts with "/".                               *)
ParseRequestURIOk(rawURL) ==
    /\ rawURL # <<>>
    /\ \A i \in 1..Len(rawURL) : rawURL[i] \notin {"\n", "\t", "\r"}
    /\ \/ rawURL = <<"*">>
       \/ getScheme(rawURL, 1) > 0
       \/ getScheme(rawURL, 1) = 0 /\ Head(rawURL) = "/"

Procedure(path, args) == [path |-> path, args |-> args]

(* validateProcedure: the empty chain (nil) for a valid procedure. *)
validateProcedure(procedure) ==
    IF procedure.path = <<>> THEN PlainErr("procedure path is empty")
    ELSE IF ~ParseRequestURIOk(procedure.path)
    THEN <<FmtLayer("invalid procedure path: ")>> \o PlainErr("invalid URI for request")
    ELSE IF \E i \in 1..Len(procedure.args) :
                Len(procedure.args[i]) < minProcedureArgLength
                    \/ ~argRegexpMatch(procedure.args[i])
    THEN LET i == CHOOSE j \in 1..Len(procedure.args) :
                      /\ Len(procedure.args[j]) < minProcedureArgLength
                            \/ ~argRegexpMatch(procedure.args[j])
                      /\ \A k \in 1..(j - 1) :
                            /\ Len(procedure.args[k]) >= minProcedureArgLength
                            /\ argRegexpMatch(procedure.args[k])
         IN  IF Len(procedure.args[i]) < minProcedureArgLength
             THEN PlainErr("arg " \o Text(procedure.args[i]) \o " must be at least length 2")
             ELSE PlainErr("arg " \o Text(procedure.args[i])
                               \o " must only consist of characters [a-zA-Z0-9-_]")
    ELSE NilErr

(* newProcedure / NewProcedure / NewProcedureForProto: (procedure, error). *)
validated(procedure, err) == [ok |-> err = NilErr, procedure |-> procedure, err |-> err]

newProcedure(path, args) ==
    validated(Procedure(path, args), validateProcedure(Procedure(path, args)))

NewProcedureForProto(protoProcedure) ==
    newProcedure(protoProcedure.path, protoProcedure.args)

NewProtoProcedureWithoutArgs(procedure) == [path |-> procedure.path, args |-> <<>>]

NewProtoProcedure(procedure) == [path |-> procedure.path, args |-> procedure.args]

(* validateProcedures, from procedure i on, with the two used-maps so far. *)
RECURSIVE validateProceduresFrom(_, _, _, _)
validateProceduresFrom(procedures, i, usedPathMap, usedArgsMap) ==
    IF i > Len(procedures) THEN NilErr
    ELSE LET path == procedures[i].path
             args == procedures[i].args
             joinedArgs == Join(args, <<" ">>)
         IN  IF path \in usedPathMap
             THEN PlainErr("duplicate procedure path: " \o Text(path))
             ELSE IF Len(args) > 0 /\ joinedArgs \in usedArgsMap
             THEN PlainErr("duplicate procedure args: " \o Text(joinedArgs))
             ELSE validateProceduresFrom(
                      procedures, i + 1, usedPathMap \cup {path},
                      IF Len(args) > 0 THEN usedArgsMap \cup {joinedArgs}
                      ELSE usedArgsMap)

RECURSIVE validatePathsOnlyFrom(_, _, _)
validatePathsOnlyFrom(procedures, i, usedPathMap) ==
    IF i > Len(procedures) THEN NilErr
    ELSE IF procedures[i].path \in usedPathMap
    THEN PlainErr("duplicate procedure path: " \o Text(procedures[i].path))
    ELSE validatePathsOnlyFrom(procedures, i + 1, usedPathMap \cup {procedures[i].path})

validateProceduresPathsOnly(procedures) == validatePathsOnlyFrom(procedures, 1, {})

validateProcedures(procedures) == validateProceduresFrom(procedures, 1, {}, {})

(***************************************************************************)
(* Spec (spec.go).  A Spec interface value is nil, a nil *spec inside a    *)
(* non-nil interface ("nilptr": what NewSpec returns beside an error,      *)
(* since it returns newSpec's *spec result as a Spec), or a spec.          *)
(***************************************************************************)
NilSpec == [kind |-> "nil", procedures |-> <<>>, pathToProcedure |-> <<>>]
NilPtrSpec == [kind |-> "nilptr", procedures |-> <<>>, pathToProcedure |-> <<>>]

PathIndexFirstOnly(procedures) ==
    [path \in {procedures[1].path} |-> procedures[1]]

(* The map the loop of newSpec builds: a later procedure overwrites. *)
PathIndex(procedures) ==
    [path \in {procedures[i].path : i \in 1..Len(procedures)} |->
        procedures[CHOOSE i \in 1..Len(procedures) :
                       /\ procedures[i].path = path
                       /\ \A j \in (i + 1)..Len(procedures) : procedures[j].path # path]]

newSpecValidated(procedures, err) ==
    IF err # NilErr THEN [spec |-> NilPtrSpec, err |-> err]
    ELSE [spec |-> [kind |-> "spec", procedures |-> procedures,
                    pathToProcedure |-> PathIndex(procedures)],
          err |-> NilErr]

newSpec(procedures) ==
    IF Len(procedures) = 0
    THEN [spec |-> NilPtrSpec, err |-> PlainErr("no procedures specified")]
    ELSE newSpecValidated(procedures, validateProcedures(procedures))

NewSpec(procedures) == newSpec(procedures)

(* spec.ProcedureForPath: the procedure, or nil. *)
NilProcedure == [path |-> <<>>, args |-> <<>>, isNil |-> TRUE]

ProcedureForPathOrFirst(spec, path) ==
    IF path \in DOMAIN spec.pathToProcedure
    THEN [path |-> spec.pathToProcedure[path].path,
          args |-> spec.pathToProcedure[path].args, isNil |-> FALSE]
    ELSE [path |-> spec.procedures[1].path,
          args |-> spec.procedures[1].args, isNil |-> FALSE]

ProcedureForPath(spec, path) ==
    IF path \in DOMAIN spec.pathToProcedure
    THEN [path |-> spec.pathToProcedure[path].path,
          args |-> spec.pathToProcedure[path].args, isNil |-> FALSE]
    ELSE NilProcedure

(* spec.Procedures: a clone of the slice. *)
Procedures(spec) == spec.procedures

(* The first descriptor NewSpecForProto could not turn into a Procedure, given *)
(* what NewProcedureForProto made of each; 0 if there is none.                *)
FirstInvalid(converted) ==
    IF \E i \in 1..Len(converted) : ~converted[i].ok
    THEN CHOOSE i \in 1..Len(converted) :
             /\ ~converted[i].ok
             /\ \A j \in 1..(i - 1) : converted[j].ok
    ELSE 0

(* The loop of NewSpecForProto returns at the first error; else NewSpec. *)
specForConverted(converted, firstInvalid) ==
    IF firstInvalid # 0
    THEN [spec |-> NilSpec, err |-> converted[firstInvalid].err]
    ELSE NewSpec([i \in 1..Len(converted) |-> converted[i].procedure])

specForProcedures(converted) == specForConverted(converted, FirstInvalid(converted))

NewSpecForProto(protoSpec) ==
    specForProcedures([i \in 1..Len(protoSpec) |-> NewProcedureForProto(protoSpec[i])])

NewProtoSpec(spec) ==
    [i \in 1..Len(Procedures(spec)) |-> NewProtoProcedure(Procedures(spec)[i])]

MergedProceduresOfFirst(specs) ==
    IF specs = <<>> \/ Head(specs).kind = "nil" THEN <<>> ELSE Procedures(Head(specs))

(* MergeSpecs: nil inputs are skipped; calling Procedures() on a nil *spec *)
(* dereferences a nil pointer.                                             *)
RECURSIVE MergedProcedures(_)
MergedProcedures(specs) ==
    IF specs = <<>> THEN <<>>
    ELSE IF Head(specs).kind = "nil" THEN MergedProcedures(Tail(specs))
    ELSE Procedures(Head(specs)) \o MergedProcedures(Tail(specs))

mergedSpec(merged) == [spec |-> merged.spec, err |-> merged.err, panic |-> FALSE]

MergeSpecsRejectingNil(specs) ==
    IF \E i \in 1..Len(specs) : specs[i].kind = "nil"
    THEN [spec |-> NilSpec, err |-> PlainErr("nil spec"), panic |-> FALSE]
    ELSE mergedSpec(NewSpec(MergedProcedures(specs)))

MergeSpecs(specs) ==
    IF \E i \in 1..Len(specs) : specs[i].kind = "nilptr"
    THEN [spec |-> NilSpec, err |-> NilErr, panic |-> TRUE]
    ELSE mergedSpec(NewSpec(MergedProcedures(specs)))

(***************************************************************************)
(* Values, messages and bytes (wire.go, codec.go, proto.go).               *)
(*                                                                         *)
(* A Go value handed to the framework is nil, a protobuf message of some   *)
(* type, or something that is no proto.Message.  Bytes are the empty byte  *)
(* string, the text a --protocol run printed, a message in one codec's     *)
(* encoding, or bytes no codec can decode.                                 *)
(***************************************************************************)
NilValue == [kind |-> "nil", type |-> "", body |-> ""]
Message(type, body) == [kind |-> "msg", type |-> type, body |-> body]
NotProtoValue == [kind |-> "other", type |-> "", body |-> ""]

(* toProtoMessage fails exactly for a non-nil value that is no proto.Message. *)
toProtoMessageOk(value) == value.kind # "other"

NilAny == [present |-> FALSE, type |-> "", body |-> ""]

(* anypb.New *)
AnyNew(message) == [present |-> TRUE, type |-> message.type, body |-> message.body]

EmptyBytes == [enc |-> 0, kind |-> "empty", msg |-> <<>>]
GarbageBytes == [enc |-> 0, kind |-> "garbage", msg |-> <<>>]
TextBytes(text) == IF text = <<>> THEN EmptyBytes ELSE [enc |-> 0, kind |-> "text", msg |-> text]

RequestEnvelope(value) == [value |-> value]
ResponseEnvelope(value, error) == [value |-> value, error |-> error]

(* The messages whose binary encoding has no bytes: those with no field set. *)
IsEmptyMessage(kind, msg) ==
    CASE kind = "request" -> ~msg.value.present
      [] kind = "response" -> ~msg.value.present /\ ~msg.error.present
      [] OTHER -> msg = <<>>

(* codecForFormat succeeds exactly for the two registered formats. *)
codecForFormatOk(format) == format \in {FormatBinary, FormatJSON}

(* codec.Marshal of an envelope of the given kind. *)
CodecMarshal(format, kind, msg) ==
    IF format = FormatBinary /\ IsEmptyMessage(kind, msg) THEN EmptyBytes
    ELSE [enc |-> format, kind |-> kind, msg |-> msg]

(* codec.Unmarshal succeeds on bytes of the same codec and envelope. *)
CodecUnmarshalOk(format, kind, data) == data.enc = format /\ data.kind = kind

(* marshalRequest: (bytes, error). *)
marshalRequest(format, requestValue) ==
    IF requestValue.kind = "nil" THEN [data |-> EmptyBytes, err |-> NilErr]
    ELSE IF ~toProtoMessageOk(requestValue)
    THEN [data |-> EmptyBytes, err |-> PlainErr("expected proto.Message")]
    ELSE IF ~codecForFormatOk(format)
    THEN [data |-> EmptyBytes, err |-> PlainErr("unknown Format")]
    ELSE [data |-> CodecMarshal(format, "request", RequestEnvelope(AnyNew(requestValue))),
          err |-> NilErr]

(* anypb.UnmarshalTo: the target must have the type the Any names. *)
UnmarshalToOk(any, target) == target.kind = "msg" /\ any.type = target.type

unmarshalRequestOfSomeBytes(format, data, requestValue) ==
    IF ~codecForFormatOk(format)
    THEN [err |-> PlainErr("unknown Format"), value |-> requestValue]
    ELSE IF ~CodecUnmarshalOk(format, "request", data)
    THEN [err |-> PlainErr("proto: cannot parse request"), value |-> requestValue]
    ELSE [err |-> NilErr, value |-> requestValue]

(* unmarshalRequest: (error, the request prototype afterwards). *)
unmarshalRequest(format, data, requestValue) ==
    IF data = EmptyBytes THEN [err |-> NilErr, value |-> requestValue]
    ELSE IF ~codecForFormatOk(format)
    THEN [err |-> PlainErr("unknown Format"), value |-> requestValue]
    ELSE IF ~CodecUnmarshalOk(format, "request", data)
    THEN [err |-> PlainErr("proto: cannot parse request"), value |-> requestValue]
    ELSE IF ~data.msg.value.present THEN [err |-> NilErr, value |-> requestValue]
    ELSE IF ~toProtoMessageOk(requestValue)
    THEN [err |-> PlainErr("expected proto.Message"), value |-> requestValue]
    ELSE IF ~UnmarshalToOk(data.msg.value, requestValue)
    THEN [err |-> PlainErr("mismatched message type"), value |-> requestValue]
    ELSE [err |-> NilErr, value |-> Message(requestValue.type, data.msg.value.body)]

(* marshalResponse(format, responseValue, err): (bytes, error). *)
marshalResponse(format, responseValue, err) ==
    IF responseValue.kind # "nil" /\ ~toProtoMessageOk(responseValue)
    THEN [data |-> EmptyBytes, err |-> PlainErr("expected proto.Message")]
    ELSE IF ~codecForFormatOk(format)
    THEN [data |-> EmptyBytes, err |-> PlainErr("unknown Format")]
    ELSE [data |-> CodecMarshal(
                       format, "response",
                       ResponseEnvelope(
                           IF responseValue.kind = "nil" THEN NilAny
                           ELSE AnyNew(responseValue),
                           ErrorToProto(WrapError(err)))),
          err |-> NilErr]

(* unmarshalResponse: (error, the response slot afterwards). *)
unmarshalResponse(format, data, responseValue) ==
    IF data = EmptyBytes THEN [err |-> NilErr, value |-> responseValue]
    ELSE IF ~codecForFormatOk(format)
    THEN [err |-> PlainErr("unknown Format"), value |-> responseValue]
    ELSE IF ~CodecUnmarshalOk(format, "response", data)
    THEN [err |-> PlainErr("proto: cannot parse response"), value |-> responseValue]
    ELSE IF data.msg.value.present /\ ~toProtoMessageOk(responseValue)
    THEN [err |-> PlainErr("expected proto.Message"), value |-> responseValue]
    ELSE IF data.msg.value.present /\ ~UnmarshalToOk(data.msg.value, responseValue)
    THEN [err |-> PlainErr("mismatched message type"), value |-> responseValue]
    ELSE [err |-> NewErrorForProto(data.msg.error),
          value |-> IF data.msg.value.present
                    THEN Message(responseValue.type, data.msg.value.body)
                    ELSE responseValue]

(* marshalSpec(format, NewProtoSpec(spec)) and unmarshalSpec. *)
marshalSpec(format, protoSpec) ==
    IF ~codecForFormatOk(format)
    THEN [data |-> EmptyBytes, err |-> PlainErr("unknown Format")]
    ELSE [data |-> CodecMarshal(format, "spec", protoSpec), err |-> NilErr]

unmarshalSpec(format, data) ==
    IF data = EmptyBytes THEN [err |-> NilErr, protoSpec |-> <<>>]
    ELSE IF ~codecForFormatOk(format)
    THEN [err |-> PlainErr("unknown Format"), protoSpec |-> <<>>]
    ELSE IF ~CodecUnmarshalOk(format, "spec", data)
    THEN [err |-> PlainErr("proto: cannot parse spec"), protoSpec |-> <<>>]
    ELSE [err |-> NilErr, protoSpec |-> data.msg]

(***************************************************************************)
(* Flags (flags.go), parsed by pflag with its default settings:            *)
(* interspersed positional args, "--" ends the flags, a bool flag takes a  *)
(* value only as --name=value, a string flag as --name=value or as the     *)
(* next arg, -h and --help ask for help, anything else is an error.        *)
(***************************************************************************)
ErrHelp == PlainErr("pflag: help requested")

TrueStrings ==
    { <<"1">>, <<"t">>, <<"T">>, <<"t", "r", "u", "e">>, <<"T", "R", "U", "E">>,
      <<"T", "r", "u", "e">> }

FalseStrings ==
    { <<"0">>, <<"f">>, <<"F">>, <<"f", "a", "l", "s", "e">>, <<"F", "A", "L", "S", "E">>,
      <<"F", "a", "l", "s", "e">> }

(* The index of the first c in s, 0 when there is none. *)
IndexOf(s, c) ==
    IF \E i \in 1..Len(s) : s[i] = c
    THEN CHOOSE i \in 1..Len(s) : s[i] = c /\ \A j \in 1..(i - 1) : s[j] # c
    ELSE 0

ToLowerChar(c) ==
    IF c \in Range(UpperLetters)
    THEN LowerLetters[CHOOSE i \in 1..Len(UpperLetters) : UpperLetters[i] = c]
    ELSE c

ToLower(s) == [i \in 1..Len(s) |-> ToLowerChar(s[i])]

FormatForStringExact(s) ==
    CASE s = formatBinaryString -> FormatBinary
      [] s = formatJSONString -> FormatJSON
      [] OTHER -> 0

FormatForString(s) ==
    CASE ToLower(TrimSpace(s)) = formatBinaryString -> FormatBinary
      [] ToLower(TrimSpace(s)) = formatJSONString -> FormatJSON
      [] OTHER -> 0

FlagState ==
    [printProtocol |-> FALSE, printSpec |-> FALSE, formatString |-> formatBinaryString,
     args |-> <<>>, err |-> NilErr]

SetBool(st, name, value) ==
    IF value \notin TrueStrings \cup FalseStrings
    THEN [st EXCEPT !.err = PlainErr("invalid argument for flag")]
    ELSE IF name = SubSeq(ProtocolFlag, 3, Len(ProtocolFlag))
    THEN [st EXCEPT !.printProtocol = value \in TrueStrings]
    ELSE [st EXCEPT !.printSpec = value \in TrueStrings]

RECURSIVE pflagParse(_, _)
pflagParse(args, st) ==
    IF args = <<>> \/ st.err # NilErr THEN st
    ELSE LET s == Head(args)
             rest == Tail(args)
         IN  IF Len(s) <= 1 \/ s[1] # "-"
             THEN pflagParse(rest, [st EXCEPT !.args = Append(@, s)])
             ELSE IF s[2] # "-"
             THEN [st EXCEPT !.err = IF s[2] = "h" THEN ErrHelp
                                     ELSE PlainErr("unknown shorthand flag")]
             ELSE IF Len(s) = 2
             THEN [st EXCEPT !.args = @ \o rest]
             ELSE LET long == SubSeq(s, 3, Len(s))
                      eq == IndexOf(long, "=")
                      name == IF eq = 0 THEN long ELSE SubSeq(long, 1, eq - 1)
                      value == SubSeq(long, eq + 1, Len(long))
                  IN  IF long[1] \in {"-", "="}
                      THEN [st EXCEPT !.err = PlainErr("bad flag syntax")]
                      ELSE IF name \in {SubSeq(ProtocolFlag, 3, Len(ProtocolFlag)),
                                        SubSeq(SpecFlag, 3, Len(SpecFlag))}
                      THEN pflagParse(
                               rest,
                               SetBool(st, name,
                                       IF eq = 0 THEN <<"t", "r", "u", "e">> ELSE value))
                      ELSE IF name = SubSeq(FormatFlag, 3, Len(FormatFlag))
                      THEN IF eq # 0
                           THEN pflagParse(rest, [st EXCEPT !.formatString = value])
                           ELSE IF rest # <<>>
                           THEN pflagParse(Tail(rest),
                                           [st EXCEPT !.formatString = Head(rest)])
                           ELSE [st EXCEPT !.err = PlainErr("flag needs an argument")]
                      ELSE IF name = <<"h", "e", "l", "p">>
                      THEN [st EXCEPT !.err = ErrHelp]
                      ELSE [st EXCEPT !.err = PlainErr("unknown flag")]

(* parseFlags: (flags, positional args, error). *)
flagsFormat(st) ==
    IF st.formatString # <<>> THEN FormatForString(st.formatString) ELSE FormatBinary

flagsResult(st, format, err) ==
    [printProtocol |-> st.printProtocol, printSpec |-> st.printSpec,
     format |-> format, args |-> st.args, err |-> err]

flagsCheckedAllowingBoth(st, format) ==
    IF st.err # NilErr THEN flagsResult(st, format, st.err)
    ELSE IF format = 0 THEN flagsResult(st, format, PlainErr("invalid value for --format"))
    ELSE IF ~validateFormat(format) THEN flagsResult(st, format, PlainErr("unknown Format"))
    ELSE flagsResult(st, format, NilErr)

flagsChecked(st, format) ==
    IF st.err # NilErr THEN flagsResult(st, format, st.err)
    ELSE IF st.printProtocol /\ st.printSpec
    THEN flagsResult(st, format, PlainErr("cannot specify both --protocol and --spec"))
    ELSE IF format = 0 THEN flagsResult(st, format, PlainErr("invalid value for --format"))
    ELSE IF ~validateFormat(format) THEN flagsResult(st, format, PlainErr("unknown Format"))
    ELSE flagsResult(st, format, NilErr)

flagsParsed(st) == flagsChecked(st, flagsFormat(st))

parseFlags(args) == flagsParsed(pflagParse(args, FlagState))

(***************************************************************************)
(* Handler (handler.go).  One Handle invocation as a function of what its  *)
(* environment does: the Format option, what reading stdin gives, what the *)
(* user's handle function returns, and which writes to stdout fail.        *)
(***************************************************************************)
(* The user's handle function: ho is what it answers. *)
UserHandle(ho, request) ==
    [response |-> CASE ho.response = "echo" -> Message("resp", request.body)
                    [] ho.response = "other" -> NotProtoValue
                    [] OTHER -> NilValue,
     err |-> ho.err]

Write(data, n, writeFails) == <<[data |-> data, ok |-> n \notin writeFails]>>

NoHandlerAnswer == [response |-> NilValue, err |-> NilErr]

(* writeError(format, handleEnv, inputErr) as write number n on stdout: *)
(* (error, writes made).                                                *)
writeErrorDataUnwritten(marshalled, n, writeFails) ==
    [err |-> marshalled.err, writes |-> <<>>]

writeErrorData(marshalled, n, writeFails) ==
    IF marshalled.err # NilErr THEN [err |-> marshalled.err, writes |-> <<>>]
    ELSE [err |-> IF n \in writeFails
                  THEN <<FmtLayer("failed to write error to stdout: ")>>
                           \o PlainErr("write failed")
                  ELSE NilErr,
          writes |-> Write(marshalled.data, n, writeFails)]

writeErrorOfNil(format, inputErr, n, writeFails) ==
    writeErrorData(marshalResponse(format, NilValue, inputErr), n, writeFails)

writeError(format, inputErr, n, writeFails) ==
    IF inputErr = NilErr THEN [err |-> NilErr, writes |-> <<>>]
    ELSE writeErrorData(marshalResponse(format, NilValue, inputErr), n, writeFails)

(* The body of Handle after the Format check, up to its return statement *)
(* (the deferred function has not run yet): (retErr, writes made, calls  *)
(* of the user's handle function, the request it got, its answer).       *)
HandleReturn(retErr, writes, handled, request, answer) ==
    [retErr |-> retErr, writes |-> writes, handled |-> handled,
     request |-> request, answer |-> answer]

(* ... from the marshalled response on. *)
HandleWrite(encoded, request, answer, writeFails) ==
    IF encoded.err # NilErr THEN HandleReturn(encoded.err, <<>>, 1, request, answer)
    ELSE HandleReturn(IF 1 \in writeFails
                      THEN <<FmtLayer("failed to write response to stdout: ")>>
                               \o PlainErr("write failed")
                      ELSE NilErr,
                      Write(encoded.data, 1, writeFails), 1, request, answer)

(* ... from the return of the user's handle function on. *)
HandleAnswer(format, request, answer, writeFails) ==
    IF answer.err # NilErr THEN HandleReturn(answer.err, <<>>, 1, request, answer)
    ELSE HandleWrite(marshalResponse(format, answer.response, NilErr),
                     request, answer, writeFails)

HandleDecodedUnchecked(format, request, decoded, ho, writeFails) ==
    HandleAnswer(format, decoded.value, UserHandle(ho, decoded.value), writeFails)

(* ... from the return of unmarshalRequest on. *)
HandleDecoded(format, request, decoded, ho, writeFails) ==
    IF decoded.err # NilErr
    THEN HandleReturn(decoded.err, <<>>, 0, request, NoHandlerAnswer)
    ELSE HandleAnswer(format, decoded.value, UserHandle(ho, decoded.value), writeFails)

HandleBody(format, stdin, request, ho, writeFails) ==
    IF stdin.err # NilErr
    THEN HandleReturn(stdin.err, <<>>, 0, request, NoHandlerAnswer)
    ELSE HandleDecoded(format, request, unmarshalRequest(format, stdin.data, request),
                       ho, writeFails)

(* The deferred function: retErr = h.writeError(format, handleEnv, retErr). *)
HandleDeferredKeepingError(body, written) ==
    [err |-> IF written.err # NilErr THEN written.err ELSE body.retErr,
     writes |-> body.writes \o written.writes,
     handled |-> body.handled, request |-> body.request, answer |-> body.answer]

HandleDeferred(body, written) ==
    [err |-> written.err,
     writes |-> body.writes \o written.writes,
     handled |-> body.handled, request |-> body.request, answer |-> body.answer]

HandleDefer(format, body, writeFails) ==
    HandleDeferred(body, writeError(format, body.retErr, Len(body.writes) + 1, writeFails))

(* handler.Handle: (error returned, writes made on stdout, calls of the user's *)
(* handle function, the request it was given, its answer).                    *)
Handle(format, stdin, request, ho, writeFails) ==
    IF ~validateFormat(format)
    THEN [err |-> PlainErr("unknown Format"), writes |-> <<>>, handled |-> 0,
          request |-> request, answer |-> NoHandlerAnswer]
    ELSE HandleDefer(format, HandleBody(format, stdin, request, ho, writeFails),
                     writeFails)

(* What a reader of stdout gets: the bytes written, in order. *)
Captured(writes) ==
    IF \A i \in 1..Len(writes) : writes[i].data = EmptyBytes THEN EmptyBytes
    ELSE IF Len(writes) = 1 /\ writes[1].ok THEN writes[1].data
    ELSE GarbageBytes

(***************************************************************************)
(* ServerRegistrar (server_registrar.go).  A handle function is named by   *)
(* the Register call that brought it: the path it was registered under     *)
(* and the number of that call.                                            *)
(***************************************************************************)
newServerRegistrar == [pathToHandleFuncMap |-> <<>>, errs |-> <<>>, read |-> FALSE]

(* The branch Register takes, from what it reads under the lock. *)
RegisterBranchIgnoringRead(s, path) ==
    IF path \in DOMAIN s.pathToHandleFuncMap THEN "dup" ELSE "store"

RegisterBranch(s, path) ==
    IF s.read THEN "used"
    ELSE IF path \in DOMAIN s.pathToHandleFuncMap THEN "dup"
    ELSE "store"

(* A Register that lets the later handle function of a path replace the *)
(* earlier one.                                                        *)
RegisterWriteOverwriting(s, path, handleFunc, branch) ==
    IF branch = "used"
    THEN [s EXCEPT !.errs = Append(@, PlainErr("server registrar already used"))]
    ELSE [s EXCEPT !.pathToHandleFuncMap =
                        [q \in DOMAIN @ \cup {path} |-> IF q = path THEN handleFunc ELSE @[q]]]

(* What Register writes in the branch it took. *)
RegisterWrite(s, path, handleFunc, branch) ==
    IF branch = "used"
    THEN [s EXCEPT !.errs = Append(@, PlainErr("server registrar already used"))]
    ELSE IF branch = "dup"
    THEN [s EXCEPT !.errs = Append(@, PlainErr("path " \o Text(path) \o " already registered"))]
    ELSE [s EXCEPT !.pathToHandleFuncMap =
                        [q \in DOMAIN @ \cup {path} |-> IF q = path THEN handleFunc ELSE @[q]]]

(* sync.Mutex: Lock() returns when nobody holds it. *)
MutexFreeAlways(holders) == TRUE

MutexFree(holders) == holders = {}

Register(s, path, handleFunc) ==
    IF s.read
    THEN [s EXCEPT !.errs = Append(@, PlainErr("server registrar already used"))]
    ELSE IF path \in DOMAIN s.pathToHandleFuncMap
    THEN [s EXCEPT !.errs = Append(@, PlainErr("path " \o Text(path) \o " already registered"))]
    ELSE [s EXCEPT !.pathToHandleFuncMap =
                        [q \in DOMAIN @ \cup {path} |-> IF q = path THEN handleFunc ELSE @[q]]]

(* serverRegistrar.pathToHandleFunc: (registrar afterwards, map, error). *)
pathToHandleFunc(s) ==
    [registrar |-> [s EXCEPT !.read = TRUE],
     map |-> IF Len(s.errs) > 0 THEN <<>> ELSE s.pathToHandleFuncMap,
     err |-> IF Len(s.errs) > 0 THEN Concat(s.errs) ELSE NilErr]

(***************************************************************************)
(* Server (server.go).                                                     *)
(***************************************************************************)
NilServer == [spec |-> NilSpec, pathToHandleFunc |-> <<>>]

newServerFailed(err, drained) ==
    [server |-> NilServer, err |-> err, registrar |-> drained.registrar]

newServerUncheckedSpec(spec, drained) ==
    IF drained.err # NilErr THEN newServerFailed(drained.err, drained)
    ELSE IF \E path \in DOMAIN drained.map : ProcedureForPath(spec, path).isNil
    THEN newServerFailed(PlainErr("path not contained within spec"), drained)
    ELSE [server |-> [spec |-> spec, pathToHandleFunc |-> drained.map],
          err |-> NilErr, registrar |-> drained.registrar]

(* newServer after serverRegistrar.pathToHandleFunc() gave drained: the two *)
(* loops over the registered paths and over the Spec's procedures.  The     *)
(* path a message names is left out of it: which path the loop over the map *)
(* meets first is not determined.                                           *)
newServerDrained(spec, drained) ==
    IF drained.err # NilErr THEN newServerFailed(drained.err, drained)
    ELSE IF \E path \in DOMAIN drained.map : ProcedureForPath(spec, path).isNil
    THEN newServerFailed(PlainErr("path not contained within spec"), drained)
    ELSE IF \E i \in 1..Len(Procedures(spec)) :
                Procedures(spec)[i].path \notin DOMAIN drained.map
    THEN newServerFailed(PlainErr("path not registered"), drained)
    ELSE [server |-> [spec |-> spec, pathToHandleFunc |-> drained.map],
          err |-> NilErr, registrar |-> drained.registrar]

(* newServer: (server, error, the registrar afterwards). *)
newServer(spec, serverRegistrar) ==
    newServerDrained(spec, pathToHandleFunc(serverRegistrar))

(* The loop of Serve: the first procedure, in declaration order, whose path *)
(* is the sole positional arg or whose args are the positional args; 0 if   *)
(* there is none.                                                           *)
FirstMatchByPathOnly(procedures, args) ==
    IF \E i \in 1..Len(procedures) : args = <<procedures[i].path>>
    THEN CHOOSE i \in 1..Len(procedures) :
             /\ args = <<procedures[i].path>>
             /\ \A j \in 1..(i - 1) : args # <<procedures[j].path>>
    ELSE IF procedures # <<>> THEN 1 ELSE 0

FirstMatchLast(procedures, args) ==
    IF \E i \in 1..Len(procedures) :
           args = <<procedures[i].path>> \/ args = procedures[i].args
    THEN CHOOSE i \in 1..Len(procedures) :
             /\ args = <<procedures[i].path>> \/ args = procedures[i].args
             /\ \A j \in (i + 1)..Len(procedures) :
                    args # <<procedures[j].path>> /\ args # procedures[j].args
    ELSE 0

FirstMatch(procedures, args) ==
    IF \E i \in 1..Len(procedures) :
           args = <<procedures[i].path>> \/ args = procedures[i].args
    THEN CHOOSE i \in 1..Len(procedures) :
             /\ args = <<procedures[i].path>> \/ args = procedures[i].args
             /\ \A j \in 1..(i - 1) :
                    args # <<procedures[j].path>> /\ args # procedures[j].args
    ELSE 0

(* The handle function the generated code registers: Handle with a request *)
(* prototype and the user's method.                                        *)
HandleFuncCall(format, stdin, ho, writeFails) ==
    Handle(format, stdin, Message("req", ""), ho, writeFails)

(* server.Serve on env = (args, stdin, a stdout on which the writes numbered *)
(* in writeFails fail), with ho what the user's handle function answers:     *)
(* (error, writes on stdout, the handle functions invoked, and what Handle   *)
(* saw).                                                                     *)
ServeIdle(err, writes) ==
    [err |-> err, writes |-> writes, invoked |-> <<>>, handled |-> 0,
     format |-> 0, request |-> NilValue, answer |-> NoHandlerAnswer]

(* _, err := env.Stdout.Write(data); return err *)
ServeWrite(data, writeFails) ==
    ServeIdle(IF 1 \in writeFails THEN PlainErr("write failed") ELSE NilErr,
              Write(data, 1, writeFails))

ServeSpec(marshalled, writeFails) ==
    IF marshalled.err # NilErr THEN ServeIdle(marshalled.err, <<>>)
    ELSE ServeWrite(marshalled.data, writeFails)

(* return handleFunc(ctx, handleEnvForEnv(env), HandleWithFormat(flags.format)) *)
ServeHandle(handleFunc, format, handle) ==
    [err |-> handle.err, writes |-> handle.writes, invoked |-> <<handleFunc>>,
     handled |-> handle.handled, format |-> format,
     request |-> handle.request, answer |-> handle.answer]

ServeMatch(server, match, format, stdin, ho, writeFails) ==
    IF match = 0 THEN ServeIdle(PlainErr("args not recognized"), <<>>)
    ELSE ServeHandle(server.pathToHandleFunc[Procedures(server.spec)[match].path],
                     format, HandleFuncCall(format, stdin, ho, writeFails))

ServeFlags(server, flags, stdin, ho, writeFails) ==
    IF flags.err # NilErr
    THEN ServeIdle(IF flags.err = ErrHelp THEN NilErr ELSE flags.err, <<>>)
    ELSE IF flags.printProtocol
    THEN ServeWrite(TextBytes(marshalProtocol(protocolVersion)), writeFails)
    ELSE IF flags.printSpec
    THEN ServeSpec(marshalSpec(flags.format, NewProtoSpec(server.spec)), writeFails)
    ELSE ServeMatch(server, FirstMatch(Procedures(server.spec), flags.args),
                    flags.format, stdin, ho, writeFails)

Serve(server, args, stdin, ho, writeFails) ==
    ServeFlags(server, parseFlags(args), stdin, ho, writeFails)

(* Main and handleServerMainError (main.go): the exit code of the plugin *)
(* process for what Serve returned.                                      *)
MainExitCode(serveErr) ==
    IF serveErr # NilErr THEN ExitCode(WrapExitError(serveErr)) ELSE 0

(***************************************************************************)
(* Runners (runner.go).  What one Run gives back: the error, the bytes     *)
(* captured from stdout, the exit code of the child if there was one (0    *)
(* otherwise), and, when a pluginrpc Server ran, what it did.              *)
(***************************************************************************)
RunResult(err, stdout, exit, serve) ==
    [err |-> err, stdout |-> stdout, exit |-> exit,
     invoked |-> serve.invoked, handled |-> serve.handled, format |-> serve.format,
     request |-> serve.request, answer |-> serve.answer]

NoServe ==
    [invoked |-> <<>>, handled |-> 0, format |-> 0, request |-> NilValue,
     answer |-> NoHandlerAnswer]

NoStdin == [err |-> NilErr, data |-> EmptyBytes]

(* serverRunner.Run: Serve in this process, stdout a buffer that never fails. *)
ServerRunnerResult(serve) == RunResult(serve.err, Captured(serve.writes), 0, serve)

ServerRunnerRun(server, args, stdin, ho) ==
    ServerRunnerResult(Serve(server, args, stdin, ho, {}))

(* execRunner.Run on a child that is a pluginrpc plugin: Main runs Serve and *)
(* exits with MainExitCode; a non-zero exit comes back as an ExitError.      *)
ExecRunnerResult(serve, code) ==
    RunResult(IF code # 0 THEN NewExitError(code, PlainErr("exit status")) ELSE NilErr,
              Captured(serve.writes), code, serve)

ExecRunnerChild(serve) == ExecRunnerResult(serve, MainExitCode(serve.err))

ExecRunnerRunPlugin(server, args, stdin, ho) ==
    ExecRunnerChild(Serve(server, args, stdin, ho, {}))

(* execRunner.Run on a child that exits with the given code having printed *)
(* stdout, or that could not be started at all (started = FALSE).          *)
ExecRunnerRunOther(started, code, stdout) ==
    IF ~started
    THEN RunResult(PlainErr("exec: executable file not found"), EmptyBytes, 0, NoServe)
    ELSE IF code # 0
    THEN RunResult(NewExitError(code, PlainErr("exit status")), stdout, code, NoServe)
    ELSE RunResult(NilErr, stdout, 0, NoServe)

(***************************************************************************)
(* Client (client.go).                                                     *)
(***************************************************************************)
(* newClient: a zero Format option means FormatBinary. *)
newClient(runner, format) ==
    [runner |-> runner,
     format |-> IF format = 0 THEN FormatBinary ELSE format,
     spec |-> NilSpec, specErr |-> NilErr,
     readers |-> {}, writers |-> {}, pending |-> {}]

(* sync.RWMutex: when RLock and Lock can return.  readers hold the read    *)
(* lock, writers holds the one that has the write lock, pending the one    *)
(* whose Lock() is waiting for the readers to leave: it keeps new readers  *)
(* out.                                                                    *)
CanRLock(c) == c.writers = {} /\ c.pending = {}

CanLockUnguarded(c) == TRUE

CanLock(c) == c.writers = {} /\ c.readers = {}

UnlockForgotten(c, i) == c

(* c.lock.Unlock(), deferred in Spec(): runs on every return under the lock. *)
Unlock(c, i) == [c EXCEPT !.writers = @ \ {i}]

(* The test both checks of Spec() make: c.spec != nil || c.specErr != nil. *)
MemoizedSuccessOnly(c) == c.spec.kind = "spec"

Memoized(c) == c.spec.kind # "nil" \/ c.specErr # NilErr

(* getProtocolVersionUncached and checkProtocolVersion on what the *)
(* --protocol run gave: the error, nil when the version is known.  *)
versionError(result, parsed) ==
    IF ~parsed.ok
    THEN <<FmtLayer("--protocol did not return a properly-formed protocol version: ")>>
             \o PlainErr("strconv.Atoi: invalid syntax")
    ELSE IF parsed.value # protocolVersion
    THEN PlainErr("--protocol returned unknown protocol version " \o Decimal(parsed.value))
    ELSE NilErr

(* string(data) of what a child printed; bytes that are no text parse as none. *)
StdoutText(stdout) == IF stdout.kind = "text" THEN stdout.msg ELSE <<"?">>

checkProtocolVersionAnyVersion(result) ==
    IF result.err # NilErr THEN result.err
    ELSE IF result.stdout = EmptyBytes
    THEN PlainErr("--protocol did not return a protocol version")
    ELSE NilErr

checkProtocolVersion(result) ==
    IF result.err # NilErr THEN result.err
    ELSE IF result.stdout = EmptyBytes
    THEN PlainErr("--protocol did not return a protocol version")
    ELSE versionError(result, unmarshalProtocol(StdoutText(result.stdout)))

(* The rest of getSpecUncached on what the --spec run gave: (Spec, error). *)
specFromData(unmarshalled) ==
    IF unmarshalled.err # NilErr
    THEN [spec |-> NilSpec,
          err |-> <<FmtLayer("--spec did not return a properly-formed spec: ")>>
                      \o unmarshalled.err]
    ELSE NewSpecForProto(unmarshalled.protoSpec)

specFromRun(format, result) ==
    IF result.err # NilErr THEN [spec |-> NilSpec, err |-> result.err]
    ELSE IF result.stdout = EmptyBytes
    THEN [spec |-> NilSpec, err |-> PlainErr("--spec did not return a spec")]
    ELSE specFromData(unmarshalSpec(format, result.stdout))

(* The args of the three kinds of run. *)
ProtocolArgs == <<ProtocolFlag>>
SpecArgs(format) == <<SpecFlag, FormatFlag, FormatString(format)>>

CallArgsPathOnly(procedure, format) ==
    <<procedure.path>> \o <<FormatFlag, FormatString(format)>>

CallArgs(procedure, format) ==
    (IF Len(procedure.args) = 0 THEN <<procedure.path>> ELSE procedure.args)
        \o <<FormatFlag, FormatString(format)>>

(***************************************************************************)
(* The constructors of Spec as one-step computations: Init draws the       *)
(* constructor and its input, the action applies it.                       *)
(***************************************************************************)
PathA == <<"/", "a">>
PathB == <<"/", "b">>
ArgFo == <<"f", "o">>
ArgBa == <<"b", "a">>

(* Procedure descriptors as they arrive on the wire: valid and invalid ones. *)
ProtoPool ==
    { [path |-> PathA, args |-> <<>>],
      [path |-> PathB, args |-> <<>>],
      [path |-> PathA, args |-> <<ArgFo, ArgBa>>],
      [path |-> PathB, args |-> <<ArgFo, ArgBa>>],
      [path |-> PathB, args |-> <<ArgFo>>],
      [path |-> <<>>, args |-> <<>>],
      [path |-> PathA, args |-> <<<<"f">>>>],
      [path |-> PathB, args |-> <<ArgFo \o <<" ">> \o ArgBa>>] }

(* The Procedure values a caller can hold: those newProcedure returned. *)
ProcedurePool ==
    {newProcedure(d.path, d.args).procedure : d \in {x \in ProtoPool : newProcedure(x.path, x.args).ok}}

(* The Spec values a caller can hold: nil, and those NewSpec returned. *)
SpecPool ==
    {NilSpec} \cup
    {NewSpec(ps).spec : ps \in {x \in SeqsUpTo(ProcedurePool, 2) : NewSpec(x).err = NilErr}}

(* The paths and args a caller may hand to NewProcedure: the ones of the     *)
(* tests ("/foo/bar", "foo/bar", "\\foo\\bar", "f") and the other shapes      *)
(* url.ParseRequestURI and argRegexp tell apart.                            *)
MaxArgs == 2

PathPool ==
    { PathA, PathB, <<>>, <<"a", "/", "b">>, <<"\\", "a">>, <<"*">>,
      <<"a", ":", "b">>, <<":", "a">>, <<"1", ":", "a">>, <<"/", "a", "\n">> }

ArgPool ==
    { ArgFo, ArgBa, <<>>, <<"f">>, <<"_", "f">>, <<"f", "_">>, <<"-", "f">>,
      <<"f", "-">>, <<"f", "-", "o">>, <<"f", "_", "0">>, <<"f", " ", "o">>,
      <<"f", ".", "o">>, <<"F", "0">> }

CtorInputs ==
    {[op |-> "NewSpec", input |-> ps] : ps \in SeqsUpTo(ProcedurePool, MaxProcs)}
    \cup {[op |-> "NewSpecForProto", input |-> ds] : ds \in SeqsUpTo(ProtoPool, MaxProcs)}
    \cup {[op |-> "MergeSpecs", input |-> ss] : ss \in SeqsUpTo(SpecPool, MaxSpecs)}
    \cup {[op |-> op, input |-> [path |-> path, args |-> args]] :
              op \in {"NewProcedure", "NewProcedureForProto"},
              path \in PathPool, args \in SeqsUpTo(ArgPool, MaxArgs)}

(* The paths a holder of a Spec may ask ProcedureForPath about. *)
LookupPaths == {PathA, PathB, <<>>, <<"*">>, <<"/">>}

NoLookup == [asked |-> FALSE, path |-> <<>>, result |-> NilProcedure]

NoRoundTrip == [done |-> FALSE, spec |-> NilSpec, procedure |-> NilProcedure, err |-> NilErr]

InitCtor ==
    /\ ctor \in {[op |-> c.op, input |-> c.input, done |-> FALSE,
                  spec |-> NilSpec, procedure |-> NilProcedure,
                  err |-> NilErr, lookup |-> NoLookup,
                  trip |-> NoRoundTrip] : c \in CtorInputs}
    /\ client = Unused
    /\ callers = Unused
    /\ runs = Unused
    /\ last = Unused
    /\ plugin = Unused
    /\ srv = Unused
    /\ reg = Unused
    /\ heap = Unused
    /\ child = Unused

CtorNewSpec ==
    /\ ~ctor.done
    /\ ctor.op = "NewSpec"
    /\ ctor' = [ctor EXCEPT !.done = TRUE,
                            !.spec = NewSpec(ctor.input).spec,
                            !.err = NewSpec(ctor.input).err]
    /\ UNCHANGED <<client, callers, runs, last, plugin, srv, reg, heap, child>>

CtorNewSpecForProto ==
    /\ ~ctor.done
    /\ ctor.op = "NewSpecForProto"
    /\ ctor' = [ctor EXCEPT !.done = TRUE,
                            !.spec = NewSpecForProto(ctor.input).spec,
                            !.err = NewSpecForProto(ctor.input).err]
    /\ UNCHANGED <<client, callers, runs, last, plugin, srv, reg, heap, child>>

CtorMergeSpecs ==
    /\ ~ctor.done
    /\ ctor.op = "MergeSpecs"
    /\ ~MergeSpecs(ctor.input).panic
    /\ ctor' = [ctor EXCEPT !.done = TRUE,
                            !.spec = MergeSpecs(ctor.input).spec,
                            !.err = MergeSpecs(ctor.input).err]
    /\ UNCHANGED <<client, callers, runs, last, plugin, srv, reg, heap, child>>

(* What a caller of NewProcedure gets: the procedure, or nil and an error. *)
ProcedureReturned(result) ==
    IF result.ok
    THEN [path |-> result.procedure.path, args |-> result.procedure.args, isNil |-> FALSE]
    ELSE NilProcedure

CtorNewProcedure ==
    /\ ~ctor.done
    /\ ctor.op = "NewProcedure"
    /\ ctor' = [ctor EXCEPT
                    !.done = TRUE,
                    !.procedure = ProcedureReturned(newProcedure(ctor.input.path, ctor.input.args)),
                    !.err = newProcedure(ctor.input.path, ctor.input.args).err]
    /\ UNCHANGED <<client, callers, runs, last, plugin, srv, reg, heap, child>>

CtorNewProcedureForProto ==
    /\ ~ctor.done
    /\ ctor.op = "NewProcedureForProto"
    /\ ctor' = [ctor EXCEPT
                    !.done = TRUE,
                    !.procedure = ProcedureReturned(NewProcedureForProto(ctor.input)),
                    !.err = NewProcedureForProto(ctor.input).err]
    /\ UNCHANGED <<client, callers, runs, last, plugin, srv, reg, heap, child>>

(* spec.ProcedureForPath(path) on the Spec a constructor returned. *)
CtorProcedureForPath ==
    /\ ctor.done
    /\ ctor.spec.kind = "spec"
    /\ ~ctor.lookup.asked
    /\ \E path \in LookupPaths :
           ctor' = [ctor EXCEPT !.lookup = [asked |-> TRUE, path |-> path,
                                            result |-> ProcedureForPath(ctor.spec, path)]]
    /\ UNCHANGED <<client, callers, runs, last, plugin, srv, reg, heap, child>>

(* NewProcedureForProto(NewProtoProcedure(procedure)) on the Procedure a *)
(* constructor returned.                                                 *)
CtorProcedureRoundTrip ==
    /\ ctor.done
    /\ ~ctor.procedure.isNil
    /\ ~ctor.trip.done
    /\ ctor' = [ctor EXCEPT
                    !.trip = [done |-> TRUE, spec |-> NilSpec,
                              procedure |-> ProcedureReturned(
                                  NewProcedureForProto(NewProtoProcedure(ctor.procedure))),
                              err |-> NewProcedureForProto(
                                          NewProtoProcedure(ctor.procedure)).err]]
    /\ UNCHANGED <<client, callers, runs, last, plugin, srv, reg, heap, child>>

(* NewSpecForProto(NewProtoSpec(spec)) on the Spec a constructor returned. *)
CtorSpecRoundTrip ==
    /\ ctor.done
    /\ ctor.spec.kind = "spec"
    /\ ~ctor.lookup.asked
    /\ ~ctor.trip.done
    /\ ctor' = [ctor EXCEPT
                    !.trip = [done |-> TRUE,
                              spec |-> NewSpecForProto(NewProtoSpec(ctor.spec)).spec,
                              procedure |-> NilProcedure,
                              err |-> NewSpecForProto(NewProtoSpec(ctor.spec)).err]]
    /\ UNCHANGED <<client, callers, runs, last, plugin, srv, reg, heap, child>>

NextCtor ==
    \/ CtorProcedureRoundTrip
    \/ CtorSpecRoundTrip
    \/ CtorProcedureForPath
    \/ CtorNewSpec
    \/ CtorNewSpecForProto
    \/ CtorMergeSpecs
    \/ CtorNewProcedure
    \/ CtorNewProcedureForProto

SpecCtor == InitCtor /\ [][NextCtor]_vars

(* One of the constructors of Spec has returned. *)
SpecCtorDone == ctor.done /\ ctor.op \in {"NewSpec", "NewSpecForProto", "MergeSpecs"}

(* The sequence of procedures (or descriptors) a constructor call is about. *)
CtorSequence ==
    IF ctor.op = "MergeSpecs" THEN MergedProcedures(ctor.input) ELSE ctor.input

HasDuplicatePath(ps) ==
    \E i, j \in 1..Len(ps) : i < j /\ ps[i].path = ps[j].path

HasDuplicateArgs(ps) ==
    \E i, j \in 1..Len(ps) : i < j /\ ps[i].args # <<>> /\ ps[i].args = ps[j].args

HasInvalidDescriptor(ds) ==
    \E i \in 1..Len(ds) : validateProcedure(Procedure(ds[i].path, ds[i].args)) # NilErr

CtorWellFormed ==
    (SpecCtorDone /\ ctor.err = NilErr) =>
        /\ ctor.spec.kind = "spec"
        /\ Len(Procedures(ctor.spec)) >= 1
        /\ ~HasDuplicatePath(Procedures(ctor.spec))
        /\ ~HasDuplicateArgs(Procedures(ctor.spec))

(* C10 as stated: a Spec returned without error by NewSpec, NewSpecForProto *)
(* or MergeSpecs has at least one procedure, distinct paths and distinct    *)
(* non-empty args tuples, and each constructor fails exactly when its       *)
(* sequence is empty or has a duplicate path or a duplicate non-empty args  *)
(* tuple.                                                                   *)
C10_AsStated ==
    /\ CtorWellFormed
    /\ SpecCtorDone =>
        (ctor.err # NilErr <=>
            \/ Len(CtorSequence) = 0
            \/ HasDuplicatePath(CtorSequence)
            \/ HasDuplicateArgs(CtorSequence))

(* C10 (amended): as C10, except that NewSpecForProto also fails when one   *)
(* of its descriptors is not a valid Procedure (empty or non-URI path, an   *)
(* arg shorter than 2 or outside the arg pattern).                          *)
C10_ConstructorsValidate ==
    /\ CtorWellFormed
    /\ SpecCtorDone =>
        (ctor.err # NilErr <=>
            \/ ctor.op = "NewSpecForProto" /\ HasInvalidDescriptor(ctor.input)
            \/ Len(CtorSequence) = 0
            \/ HasDuplicatePath(CtorSequence)
            \/ HasDuplicateArgs(CtorSequence))

C10_Witness ==
    /\ ctor.done
    /\ ctor.op = "NewSpecForProto"
    /\ ctor.err = NilErr
    /\ Len(Procedures(ctor.spec)) >= 2
    /\ \E i \in 1..Len(Procedures(ctor.spec)) : Procedures(ctor.spec)[i].args # <<>>

(* The procedure constructors: NewProcedure or NewProcedureForProto returned. *)
ProcedureCtorDone ==
    ctor.done /\ ctor.op \in {"NewProcedure", "NewProcedureForProto"}

(* An arg as C11 words it: length at least 2, only [A-Za-z0-9_-], and no "_" *)
(* or "-" at either end.                                                     *)
ArgWellFormed(a) ==
    /\ Len(a) >= 2
    /\ \A i \in 1..Len(a) : IsLetter(a[i]) \/ IsDigit(a[i]) \/ a[i] \in {"_", "-"}
    /\ a[1] \notin {"_", "-"}
    /\ a[Len(a)] \notin {"_", "-"}

(* The path begins with a URI scheme: a letter, then letters, digits, "+", *)
(* "-" or ".", then ":".                                                   *)
HasScheme(path) ==
    \E k \in 2..Len(path) :
        /\ path[k] = ":"
        /\ IsLetter(path[1])
        /\ \A j \in 2..(k - 1) :
               IsLetter(path[j]) \/ IsDigit(path[j]) \/ path[j] \in {"+", "-", "."}

(* The constructor returned its input as the Procedure. *)
ProcedureIsInput ==
    /\ ~ctor.procedure.isNil
    /\ ctor.procedure.path = ctor.input.path
    /\ ctor.procedure.args = ctor.input.args

(* C11, as stated: a Procedure returned without error by NewProcedure or    *)
(* NewProcedureForProto has a non-empty path that begins with "/" and args  *)
(* that are all well-formed, and construction fails for every input that    *)
(* violates one of these.                                                   *)
C11_AsStated ==
    ProcedureCtorDone =>
        /\ ctor.err = NilErr => ProcedureIsInput
        /\ ctor.err = NilErr =>
               /\ ctor.input.path # <<>>
               /\ Head(ctor.input.path) = "/"
               /\ \A i \in 1..Len(ctor.input.args) : ArgWellFormed(ctor.input.args[i])

(* C11, amended: a Procedure returned without error has a non-empty path    *)
(* that begins with "/", is "*", or begins with a URI scheme, and args that *)
(* are all well-formed; construction fails, returning no Procedure, for     *)
(* every input that violates one of these.                                  *)
C11_ProcedureValid ==
    ProcedureCtorDone =>
        /\ ctor.err = NilErr => ProcedureIsInput
        /\ ctor.err # NilErr => ctor.procedure.isNil
        /\ ctor.err = NilErr =>
               /\ ctor.input.path # <<>>
               /\ \/ Head(ctor.input.path) = "/"
                  \/ ctor.input.path = <<"*">>
                  \/ HasScheme(ctor.input.path)
               /\ \A i \in 1..Len(ctor.input.args) : ArgWellFormed(ctor.input.args[i])
        /\ (\/ ctor.input.path = <<>>
            \/ /\ Head(ctor.input.path) # "/"
               /\ ctor.input.path # <<"*">>
               /\ ~HasScheme(ctor.input.path)
            \/ \E i \in 1..Len(ctor.input.args) : ~ArgWellFormed(ctor.input.args[i]))
               => ctor.err # NilErr

(* NewProcedure has returned a Procedure with a path and two args, one with *)
(* a dash inside.                                                           *)
C11_Witness ==
    /\ ProcedureCtorDone
    /\ ctor.op = "NewProcedure"
    /\ ctor.err = NilErr
    /\ ctor.procedure.path = PathA
    /\ ctor.procedure.args = <<ArgFo, <<"f", "-", "o">>>>

(* C12: for a valid Spec, ProcedureForPath(p.path) returns p for each p of  *)
(* Procedures(), and nil for a path that is the path of none of them.       *)
C12_PathIndexInSync ==
    /\ SpecCtorDone /\ ctor.err = NilErr =>
           /\ DOMAIN ctor.spec.pathToProcedure
                  = {Procedures(ctor.spec)[i].path : i \in 1..Len(Procedures(ctor.spec))}
           /\ \A i \in 1..Len(Procedures(ctor.spec)) :
                  ctor.spec.pathToProcedure[Procedures(ctor.spec)[i].path]
                      = Procedures(ctor.spec)[i]
    /\ ctor.lookup.asked =>
           IF \E i \in 1..Len(Procedures(ctor.spec)) :
                  Procedures(ctor.spec)[i].path = ctor.lookup.path
           THEN \E i \in 1..Len(Procedures(ctor.spec)) :
                    /\ Procedures(ctor.spec)[i].path = ctor.lookup.path
                    /\ ~ctor.lookup.result.isNil
                    /\ ctor.lookup.result.path = Procedures(ctor.spec)[i].path
                    /\ ctor.lookup.result.args = Procedures(ctor.spec)[i].args
           ELSE ctor.lookup.result.isNil

(* The second procedure of a Spec of two was looked up by its path. *)
C12_Witness ==
    /\ ctor.lookup.asked
    /\ Len(Procedures(ctor.spec)) = 2
    /\ ctor.lookup.path = Procedures(ctor.spec)[2].path
    /\ ctor.lookup.result.args = <<ArgFo, ArgBa>>

(* The procedures of the non-nil inputs of MergeSpecs, in argument order. *)
ConcatenatedInputs ==
    Concat([i \in 1..Len(ctor.input) |->
               IF ctor.input[i].kind = "nil" THEN <<>> ELSE ctor.input[i].procedures])

MergeSpecsDone == ctor.done /\ ctor.op = "MergeSpecs"

(* C13: MergeSpecs succeeds exactly when the concatenation of the procedures *)
(* of its non-nil inputs is non-empty and has neither a duplicate path nor a *)
(* duplicate non-empty args tuple; the result's Procedures() is then that    *)
(* concatenation, in argument order.                                         *)
C13_MergeSpecsConcatenates ==
    MergeSpecsDone =>
        /\ ctor.err = NilErr <=>
               /\ Len(ConcatenatedInputs) > 0
               /\ ~HasDuplicatePath(ConcatenatedInputs)
               /\ ~HasDuplicateArgs(ConcatenatedInputs)
        /\ ctor.err = NilErr =>
               /\ ctor.spec.kind = "spec"
               /\ Procedures(ctor.spec) = ConcatenatedInputs

(* Two Specs of one procedure each were merged, the second argument's *)
(* procedure coming second.                                           *)
C13_Witness ==
    /\ MergeSpecsDone
    /\ ctor.err = NilErr
    /\ Len(ctor.input) = 2
    /\ ctor.input[1].procedures = <<Procedure(PathB, <<ArgFo, ArgBa>>)>>
    /\ ctor.input[2].procedures = <<Procedure(PathA, <<>>)>>
    /\ Procedures(ctor.spec) = <<Procedure(PathB, <<ArgFo, ArgBa>>), Procedure(PathA, <<>>)>>

(* The inputs of MergeSpecs without the nil ones. *)
WithoutNil(specs) == SelectSeq(specs, LAMBDA x : x.kind # "nil")

(* C14: MergeSpecs gives for its inputs what it gives for the same inputs   *)
(* without the nil ones (the same procedures in the same order, or          *)
(* failure), and fails when all of its inputs are nil or there are none.    *)
C14_NilNeutral ==
    MergeSpecsDone =>
        /\ (ctor.err = NilErr) = (MergeSpecs(WithoutNil(ctor.input)).err = NilErr)
        /\ ctor.err = NilErr =>
               Procedures(ctor.spec) = Procedures(MergeSpecs(WithoutNil(ctor.input)).spec)
        /\ (\A i \in 1..Len(ctor.input) : ctor.input[i].kind = "nil") =>
               ctor.err # NilErr /\ ctor.spec.kind # "spec"

(* MergeSpecs(a, nil, b) has succeeded. *)
C14_Witness ==
    /\ MergeSpecsDone
    /\ ctor.err = NilErr
    /\ Len(ctor.input) = 3
    /\ ctor.input[1].kind = "spec"
    /\ ctor.input[2].kind = "nil"
    /\ ctor.input[3].kind = "spec"
    /\ Len(Procedures(ctor.spec)) = 2

(* C25: for every Procedure a constructor returned,                         *)
(* NewProcedureForProto(NewProtoProcedure(p)) succeeds and has the path and  *)
(* the args of p, in the same order; for every Spec a constructor returned,  *)
(* NewSpecForProto(NewProtoSpec(s)) succeeds and has the procedures of s, in *)
(* the same order.                                                           *)
C25_ProtoRoundTrip ==
    ctor.trip.done =>
        /\ ctor.trip.err = NilErr
        /\ ~ctor.procedure.isNil =>
               /\ ~ctor.trip.procedure.isNil
               /\ ctor.trip.procedure.path = ctor.procedure.path
               /\ ctor.trip.procedure.args = ctor.procedure.args
        /\ ctor.spec.kind = "spec" =>
               /\ ctor.trip.spec.kind = "spec"
               /\ Procedures(ctor.trip.spec) = Procedures(ctor.spec)
               /\ \A path \in LookupPaths :
                      ProcedureForPath(ctor.trip.spec, path)
                          = ProcedureForPath(ctor.spec, path)

(* A Spec of two procedures, the second with args, went to the wire form and *)
(* back.                                                                     *)
C25_Witness ==
    /\ ctor.trip.done
    /\ ctor.spec.kind = "spec"
    /\ Procedures(ctor.spec) = <<Procedure(PathA, <<>>), Procedure(PathB, <<ArgFo, ArgBa>>)>>
    /\ Procedures(ctor.trip.spec) = Procedures(ctor.spec)

(***************************************************************************)
(* The client specifications: one Client over one Runner, callers running  *)
(* Spec() and Call, and the plugin behind the Runner.  Spec has NumCallers *)
(* concurrent callers; SpecCall has one caller and the full range of Call  *)
(* inputs, handler answers and child behaviours.                           *)
(***************************************************************************)
MaxCount == 2

RECURSIVE RegisterAll(_, _)
(* The generated Register function: one Register call per procedure path. *)
RegisterAll(s, paths) ==
    IF paths = <<>> THEN s
    ELSE RegisterAll(Register(s, Head(paths), Head(paths)), Tail(paths))

(* The Spec of the plugin: a procedure without args and one with args. *)
PluginProcedures == <<Procedure(PathA, <<>>), Procedure(PathB, <<ArgFo, ArgBa>>)>>

(* NewServer(spec, registrar) on a registrar filled by the generated code. *)
PluginServer ==
    newServer(NewSpec(PluginProcedures).spec,
              RegisterAll(newServerRegistrar,
                          [i \in 1..Len(PluginProcedures) |-> PluginProcedures[i].path])).server

(* What the user's handle function may answer. *)
HandlerOutcomes ==
    { [response |-> "echo", err |-> NilErr],
      [response |-> "nil", err |-> NilErr],
      [response |-> "other", err |-> NilErr],
      [response |-> "nil", err |-> NewError(CodeDeadlineExceeded, PlainErr("hello"))],
      [response |-> "echo", err |-> NewError(maxCode, PlainErr("hello"))],
      [response |-> "nil", err |-> <<FmtLayer("handler: ")>>
                                      \o NewError(CodeDeadlineExceeded, PlainErr("hello"))],
      [response |-> "nil", err |-> NewError(0, PlainErr("hello"))],
      [response |-> "nil", err |-> NewError(CodeDeadlineExceeded, PlainErr(""))],
      [response |-> "nil", err |-> PlainErr("boom")] }

NoAnswer == [response |-> "nil", err |-> NilErr]

(* What a child that is no pluginrpc plugin may print for --protocol. *)
ProtocolOutputs ==
    { <<>>, <<"1", "\n">>, <<" ", "1", " ">>, <<"2", "\n">>, <<"x">>, <<"\n">>,
      <<"+", "1">>, <<"1", "1">> }

(* The exit codes such a child may end with; -1 is a child a signal ended. *)
ChildExitCodes == {-1, 1, 2}

(* What it may print for --spec in the client's format. *)
ForeignSpecOutputs(format) ==
    { EmptyBytes, GarbageBytes,
      marshalSpec(IF format = FormatJSON THEN FormatBinary ELSE FormatJSON,
                  <<[path |-> PathA, args |-> <<>>]>>).data,
      marshalSpec(format, <<[path |-> PathB, args |-> <<>>]>>).data,
      marshalSpec(format, <<[path |-> PathA, args |-> <<>>],
                            [path |-> PathA, args |-> <<ArgFo, ArgBa>>]>>).data,
      marshalSpec(format, <<[path |-> <<>>, args |-> <<>>]>>).data }

(* The outcomes of runner.Run(env) for the client's runner: the in-process *)
(* runner serves; the subprocess runner starts a child that is the plugin, *)
(* or prints one of the foreign outputs, or fails with one of the codes,   *)
(* or cannot be started.                                                   *)
RunnerRun(c, p, args, stdin, ho, foreign) ==
    IF c.runner = "server" THEN {ServerRunnerRun(p.server, args, stdin, ho)}
    ELSE {ExecRunnerRunPlugin(p.server, args, stdin, ho)}
         \cup {ExecRunnerRunOther(TRUE, 0, out) : out \in foreign}
         \cup {ExecRunnerRunOther(TRUE, code, EmptyBytes) : code \in p.exitCodes}
         \cup {ExecRunnerRunOther(FALSE, 0, EmptyBytes)}

(* The paths, requests and response slots callers pass to Call. *)
PathC == <<"/", "c">>
CallPaths == {PathA, PathB, PathC}
Requests == {NilValue, Message("req", "hi"), NotProtoValue}
Responses == {Message("resp", "old"), NilValue}

CallInputs(paths, requests, responses) ==
    [paths |-> paths, requests |-> requests, responses |-> responses]

NoEnv == [ran |-> FALSE, args |-> <<>>, stdin |-> EmptyBytes]

NoCall ==
    [caller |-> 0, op |-> "none", late |-> FALSE,
     path |-> <<>>, request |-> NilValue, before |-> NilValue, response |-> NilValue,
     retSpec |-> NilSpec, retErr |-> NilErr, procedure |-> NilProcedure,
     env |-> NoEnv, runErr |-> NilErr, exit |-> 0, invoked |-> <<>>, handled |-> 0,
     served |-> 0, given |-> NilValue, answer |-> [response |-> NilValue, err |-> NilErr],
     stdout |-> EmptyBytes]

NoProtocolRun == [ran |-> FALSE, err |-> NilErr, stdout |-> EmptyBytes]
NoMemo == [set |-> FALSE, spec |-> NilSpec, err |-> NilErr]

IdleCaller(inputs) == [pc |-> "idle", op |-> "none", spec |-> NilSpec, inputs |-> inputs]

InitClient ==
    /\ \E runner \in {"server", "exec"}, format \in 0..(maxFormat + 1) :
           client = newClient(runner, format)
    /\ runs = [protocol |-> 0, spec |-> 0, procedure |-> FALSE, afterFailure |-> FALSE,
               first |-> NoProtocolRun, handshake |-> NoProtocolRun, memo |-> NoMemo]
    /\ last = NoCall
    /\ srv = Unused
    /\ ctor = Unused
    /\ reg = Unused
    /\ heap = Unused
    /\ child = Unused

(* NumCallers goroutines share the client. *)
Init ==
    /\ InitClient
    /\ plugin = [server |-> PluginServer,
                 answers |-> {[response |-> "echo", err |-> NilErr],
                              [response |-> "nil", err |-> PlainErr("boom")]},
                 exitCodes |-> {2}]
    /\ callers = [i \in Callers |->
                     IdleCaller(CallInputs({PathA, PathC}, {Message("req", "hi")},
                                           {Message("resp", "old")}))]

(* One goroutine uses the client. *)
InitCall ==
    /\ InitClient
    /\ plugin = [server |-> PluginServer, answers |-> HandlerOutcomes,
                 exitCodes |-> ChildExitCodes]
    /\ callers = [i \in {1} |-> IdleCaller(CallInputs(CallPaths, Requests, Responses))]

(* The error validateFormat returns. *)
FormatErr(format) == IF validateFormat(format) THEN NilErr ELSE PlainErr("unknown Format")

(* Caller i's operation returns: what it returned becomes the last result. *)
Returns(i, result) ==
    /\ callers' = [callers EXCEPT ![i] = IdleCaller(@.inputs)]
    /\ last' = [result EXCEPT !.caller = i, !.op = callers[i].op,
                              !.late = client.specErr # NilErr]

(* Caller i is at a return of Spec(): Spec() itself returns to its caller, *)
(* Call returns the error if there is one and goes on if there is none.    *)
SpecReturns(i, spec, err) ==
    IF callers[i].op = "Call" /\ err = NilErr
    THEN /\ callers' = [callers EXCEPT ![i].pc = "call", ![i].spec = spec]
         /\ UNCHANGED last
    ELSE Returns(i, [NoCall EXCEPT
                        !.retSpec = IF callers[i].op = "Spec" THEN spec ELSE NilSpec,
                        !.retErr = err])

Count(n) == IF n < MaxCount THEN n + 1 ELSE n

(* c.spec, c.specErr = ... *)
Memoize(c, spec, err) == [c EXCEPT !.spec = spec, !.specErr = err]

(* A caller calls client.Spec. *)
StartSpec(i) ==
    /\ callers[i].pc = "idle"
    /\ callers' = [callers EXCEPT ![i].pc = "rlock", ![i].op = "Spec"]
    /\ UNCHANGED <<client, runs, last, plugin, srv, ctor, reg, heap, child>>

(* A caller calls client.Call: validateFormat, then into Spec(). *)
StartCall(i) ==
    /\ callers[i].pc = "idle"
    /\ IF FormatErr(client.format) # NilErr
       THEN /\ callers' = callers
            /\ \E path \in callers[i].inputs.paths,
                  request \in callers[i].inputs.requests,
                  response \in callers[i].inputs.responses :
                   last' = [NoCall EXCEPT !.caller = i, !.op = "Call",
                                          !.late = client.specErr # NilErr,
                                          !.path = path, !.request = request,
                                          !.before = response, !.response = response,
                                          !.retErr = FormatErr(client.format)]
       ELSE /\ callers' = [callers EXCEPT ![i].pc = "rlock", ![i].op = "Call"]
            /\ UNCHANGED last
    /\ UNCHANGED <<client, runs, plugin, srv, ctor, reg, heap, child>>

(* c.lock.RLock() *)
RLock(i) ==
    /\ callers[i].pc = "rlock"
    /\ CanRLock(client)
    /\ client' = [client EXCEPT !.readers = @ \cup {i}]
    /\ callers' = [callers EXCEPT ![i].pc = "rcheck"]
    /\ UNCHANGED <<runs, last, plugin, srv, ctor, reg, heap, child>>

(* The first check, and c.lock.RUnlock() on either branch. *)
RCheck(i) ==
    /\ callers[i].pc = "rcheck"
    /\ client' = [client EXCEPT !.readers = @ \ {i}]
    /\ IF Memoized(client)
       THEN SpecReturns(i, client.spec, client.specErr)
       ELSE /\ callers' = [callers EXCEPT ![i].pc = "wlock"]
            /\ UNCHANGED last
    /\ UNCHANGED <<runs, plugin, srv, ctor, reg, heap, child>>

(* c.lock.Lock() *)
Lock(i) ==
    /\ callers[i].pc = "wlock"
    /\ CanLock(client)
    /\ client' = [client EXCEPT !.writers = @ \cup {i}, !.pending = @ \ {i}]
    /\ callers' = [callers EXCEPT ![i].pc = "wcheck"]
    /\ UNCHANGED <<runs, last, plugin, srv, ctor, reg, heap, child>>

(* The second check; the deferred Unlock runs when it returns. *)
WCheck(i) ==
    /\ callers[i].pc = "wcheck"
    /\ IF Memoized(client)
       THEN /\ client' = Unlock(client, i)
            /\ SpecReturns(i, client.spec, client.specErr)
       ELSE /\ callers' = [callers EXCEPT ![i].pc = "protocol"]
            /\ UNCHANGED <<client, last>>
    /\ UNCHANGED <<runs, plugin, srv, ctor, reg, heap, child>>

(* getSpecUncached, first half: checkProtocolVersion runs --protocol; on an *)
(* error Spec() memoizes it, unlocks and returns.                           *)
RunProtocol(i) ==
    /\ callers[i].pc = "protocol"
    /\ \E result \in RunnerRun(client, plugin, ProtocolArgs, NoStdin, NoAnswer,
                               {TextBytes(out) : out \in ProtocolOutputs}) :
           LET err == checkProtocolVersion(result)
           IN  /\ runs' = [runs EXCEPT
                     !.protocol = Count(@),
                     !.afterFailure = @ \/ client.specErr # NilErr,
                     !.first = IF runs.protocol = 0
                               THEN [ran |-> TRUE, err |-> result.err,
                                     stdout |-> result.stdout]
                               ELSE @,
                     !.memo = IF err # NilErr /\ ~@.set
                              THEN [set |-> TRUE, spec |-> NilSpec, err |-> err]
                              ELSE @]
               /\ IF err # NilErr
                  THEN /\ client' = Unlock(Memoize(client, NilSpec, err), i)
                       /\ SpecReturns(i, NilSpec, err)
                  ELSE /\ callers' = [callers EXCEPT ![i].pc = "spec"]
                       /\ UNCHANGED <<client, last>>
    /\ UNCHANGED <<plugin, srv, ctor, reg, heap, child>>

(* getSpecUncached, second half: runs --spec, memoizes, unlocks, returns. *)
RunSpec(i) ==
    /\ callers[i].pc = "spec"
    /\ \E result \in RunnerRun(client, plugin, SpecArgs(client.format), NoStdin,
                               NoAnswer, ForeignSpecOutputs(client.format)) :
           LET got == specFromRun(client.format, result)
           IN  /\ runs' = [runs EXCEPT
                     !.spec = Count(@),
                     !.afterFailure = @ \/ client.specErr # NilErr,
                     !.handshake = IF runs.spec = 0
                                   THEN [ran |-> TRUE, err |-> result.err,
                                         stdout |-> result.stdout]
                                   ELSE @,
                     !.memo = IF ~@.set
                              THEN [set |-> TRUE, spec |-> got.spec, err |-> got.err]
                              ELSE @]
               /\ client' = Unlock(Memoize(client, got.spec, got.err), i)
               /\ SpecReturns(i, got.spec, got.err)
    /\ UNCHANGED <<plugin, srv, ctor, reg, heap, child>>

(* Call after Spec(): a lookup or a marshalRequest that fails returns *)
(* before the runner.                                                 *)
CallFails(i) ==
    /\ callers[i].pc = "call"
    /\ \E path \in callers[i].inputs.paths, request \in callers[i].inputs.requests,
          response \in callers[i].inputs.responses :
           LET procedure == ProcedureForPath(callers[i].spec, path)
               marshalled == marshalRequest(client.format, request)
           IN  /\ procedure.isNil \/ marshalled.err # NilErr
               /\ Returns(i, [NoCall EXCEPT
                                 !.path = path, !.request = request,
                                 !.before = response, !.response = response,
                                 !.procedure = procedure,
                                 !.retErr = IF procedure.isNil
                                            THEN PlainErr("no procedure for path")
                                            ELSE marshalled.err])
    /\ UNCHANGED <<client, runs, plugin, srv, ctor, reg, heap, child>>

(* Call after Spec(): the run of the procedure and the decoding of stdout. *)
CallRuns(i) ==
    /\ callers[i].pc = "call"
    /\ \E path \in callers[i].inputs.paths, request \in callers[i].inputs.requests,
          response \in callers[i].inputs.responses, ho \in plugin.answers :
           LET procedure == ProcedureForPath(callers[i].spec, path)
               marshalled == marshalRequest(client.format, request)
               args == CallArgs(procedure, client.format)
           IN  /\ ~procedure.isNil
               /\ marshalled.err = NilErr
               /\ \E result \in RunnerRun(client, plugin, args,
                                          [err |-> NilErr, data |-> marshalled.data],
                                          ho, {EmptyBytes, GarbageBytes}) :
                      LET decoded == unmarshalResponse(client.format, result.stdout,
                                                       response)
                      IN  Returns(i, [NoCall EXCEPT
                              !.path = path, !.request = request,
                              !.before = response,
                              !.procedure = procedure,
                              !.env = [ran |-> TRUE, args |-> args,
                                       stdin |-> marshalled.data],
                              !.runErr = result.err,
                              !.exit = result.exit,
                              !.invoked = result.invoked,
                              !.handled = result.handled,
                              !.served = result.format,
                              !.given = result.request,
                              !.answer = result.answer,
                              !.stdout = result.stdout,
                              !.retErr = IF result.err # NilErr
                                         THEN WrapExitError(result.err)
                                         ELSE decoded.err,
                              !.response = IF result.err # NilErr THEN response
                                           ELSE decoded.value])
    /\ runs' = [runs EXCEPT !.procedure = TRUE,
                             !.afterFailure = @ \/ client.specErr # NilErr]
    /\ UNCHANGED <<client, plugin, srv, ctor, reg, heap, child>>

Next ==
    \/ \E i \in DOMAIN callers : StartSpec(i)
    \/ \E i \in DOMAIN callers : StartCall(i)
    \/ \E i \in DOMAIN callers : RLock(i)
    \/ \E i \in DOMAIN callers : RCheck(i)
    \/ \E i \in DOMAIN callers : Lock(i)
    \/ \E i \in DOMAIN callers : WCheck(i)
    \/ \E i \in DOMAIN callers : RunProtocol(i)
    \/ \E i \in DOMAIN callers : RunSpec(i)
    \/ \E i \in DOMAIN callers : CallFails(i)
    \/ \E i \in DOMAIN callers : CallRuns(i)

Spec == Init /\ [][Next]_vars

SpecCall == InitCall /\ [][Next]_vars

(* The lock of the Client on its own: the callers and the steps of Spec()   *)
(* are those above, and of the Runner only this is kept, that its           *)
(* invocations return: getSpecUncached returns a Spec or an error, and the  *)
(* rest of Call returns.                                                    *)
HandshakeOutcomes ==
    { [spec |-> NewSpec(PluginProcedures).spec, err |-> NilErr],
      [spec |-> NilSpec, err |-> PlainErr("handshake failed")] }

(* c.spec, c.specErr = c.getSpecUncached(ctx); return, and the deferred Unlock *)
GetSpecUncached(i) ==
    /\ callers[i].pc = "protocol"
    /\ \E outcome \in HandshakeOutcomes :
           /\ client' = Unlock(Memoize(client, outcome.spec, outcome.err), i)
           /\ SpecReturns(i, outcome.spec, outcome.err)
    /\ UNCHANGED <<runs, plugin, srv, ctor, reg, heap, child>>

(* c.lock.Lock() is called: the caller passes the writers' mutex of the  *)
(* RWMutex, free when no writer holds or awaits the lock, and from then  *)
(* on RLock() admits no new reader.                                      *)
LockCalled(i) ==
    /\ callers[i].pc = "wlock"
    /\ client.writers = {}
    /\ client.pending = {}
    /\ client' = [client EXCEPT !.pending = {i}]
    /\ UNCHANGED <<callers, runs, last, plugin, srv, ctor, reg, heap, child>>

(* That Lock() returns, the readers having left. *)
LockReturns(i) ==
    /\ i \in client.pending
    /\ Lock(i)

(* Call after Spec(): whatever the lookup, the run and the decoding give, *)
(* Call returns.                                                          *)
CallReturns(i) ==
    /\ callers[i].pc = "call"
    /\ \E err \in {NilErr, PlainErr("no procedure for path")} :
           Returns(i, [NoCall EXCEPT !.retErr = err])
    /\ UNCHANGED <<client, runs, plugin, srv, ctor, reg, heap, child>>

NextLock ==
    \/ \E i \in DOMAIN callers : StartSpec(i)
    \/ \E i \in DOMAIN callers : StartCall(i)
    \/ \E i \in DOMAIN callers : RLock(i)
    \/ \E i \in DOMAIN callers : RCheck(i)
    \/ \E i \in DOMAIN callers : LockCalled(i)
    \/ \E i \in DOMAIN callers : LockReturns(i)
    \/ \E i \in DOMAIN callers : WCheck(i)
    \/ \E i \in DOMAIN callers : GetSpecUncached(i)
    \/ \E i \in DOMAIN callers : CallReturns(i)

(* The scheduling of the callers: a goroutine that can take a step takes    *)
(* one, a Runner invocation returns, and a goroutine waiting in RLock or at *)
(* the writers' mutex is not passed over for ever (sync.RWMutex: Unlock     *)
(* admits the readers that waited; sync.Mutex hands over to a starved       *)
(* waiter).  Nobody is obliged to begin a Spec() or a Call.                 *)
FairCallers ==
    \A i \in Callers :
        /\ SF_vars(RLock(i))
        /\ SF_vars(LockCalled(i))
        /\ WF_vars(LockReturns(i))
        /\ WF_vars(RCheck(i))
        /\ WF_vars(WCheck(i))
        /\ WF_vars(GetSpecUncached(i))
        /\ WF_vars(CallReturns(i))

SpecFair == Init /\ [][NextLock]_vars /\ FairCallers

(***************************************************************************)
(* Properties of the client.                                               *)
(***************************************************************************)

(* C1: under every interleaving of the callers' Spec() and Call, the Runner  *)
(* is invoked at most once with --protocol and at most once with --spec, and *)
(* every Spec() returns the (spec, error) pair that was memoized first.      *)
C1_HandshakeAtMostOnce ==
    /\ runs.protocol <= 1
    /\ runs.spec <= 1
    /\ last.op = "Spec" =>
           /\ runs.memo.set
           /\ last.retSpec = runs.memo.spec
           /\ last.retErr = runs.memo.err

(* A Spec() has returned while another caller, having lost the race for the *)
(* write lock, holds it and finds the handshake done.                       *)
C1_Witness ==
    /\ last.op = "Spec"
    /\ runs.protocol = 1
    /\ runs.spec = 1
    /\ \E i \in DOMAIN callers : callers[i].pc = "wcheck" /\ i # last.caller

(* C2, as stated: once a handshake has failed, every later Spec() and Call *)
(* returns that same error, and the Runner is not invoked again.           *)
C2_AsStated ==
    /\ ~runs.afterFailure
    /\ last.late => last.retErr = client.specErr

(* C2, amended: once a handshake has failed, the Runner is not invoked      *)
(* again, every later Spec() returns that same error (and the same Spec),   *)
(* and so does every later Call on a client whose Format is valid; on a     *)
(* client whose Format is invalid a Call returns the Format's validation    *)
(* error instead.                                                           *)
C2_StickyFailure ==
    /\ ~runs.afterFailure
    /\ client.specErr # NilErr => client.specErr = runs.memo.err
    /\ last.late /\ last.op = "Spec" =>
           last.retErr = client.specErr /\ last.retSpec = client.spec
    /\ last.late /\ last.op = "Call" =>
           last.retErr = IF validateFormat(client.format) THEN client.specErr
                         ELSE PlainErr("unknown Format")

(* A Call on a client with a valid Format has returned the memoized error of *)
(* a handshake that failed at --spec.                                        *)
C2_Witness ==
    /\ last.late
    /\ last.op = "Call"
    /\ validateFormat(client.format)
    /\ runs.spec = 1
    /\ last.retErr = client.specErr

(* What the first --protocol run gave parses, trimmed, to the integer 1. *)
FirstProtocolRunGood ==
    /\ runs.first.ran
    /\ runs.first.err = NilErr
    /\ runs.first.stdout.kind = "text"
    /\ Atoi(TrimSpace(runs.first.stdout.msg)) = [ok |-> TRUE, value |-> 1]

(* C9: --spec is run only after a --protocol run that returned without error *)
(* and printed something that, trimmed, parses to 1; after any other         *)
(* --protocol run Spec() has failed and --spec is never run; and a procedure *)
(* is run only after the handshake has succeeded.                            *)
C9_HandshakeOrder ==
    /\ (runs.spec > 0 \/ \E i \in DOMAIN callers : callers[i].pc = "spec")
           => FirstProtocolRunGood
    /\ runs.first.ran /\ ~FirstProtocolRunGood =>
           /\ runs.spec = 0
           /\ client.specErr # NilErr
           /\ client.spec.kind # "spec"
    /\ runs.procedure =>
           /\ FirstProtocolRunGood
           /\ runs.spec > 0
           /\ client.spec.kind = "spec"
           /\ client.specErr = NilErr

(* A procedure has run after a --protocol run that printed " 1 ". *)
C9_Witness ==
    /\ runs.procedure
    /\ runs.first.stdout = TextBytes(<<" ", "1", " ">>)
    /\ last.env.ran

(* The last Call was for a procedure of the Server's Spec, through the *)
(* in-process runner.                                                  *)
InProcessCall ==
    /\ last.op = "Call"
    /\ client.runner = "server"
    /\ ~ProcedureForPath(plugin.server.spec, last.path).isNil

(* C3, as stated: through the in-process runner, Call(P.path, ...) for a    *)
(* procedure P of the Server's Spec invokes the handle function registered  *)
(* under P.path exactly once and no other.                                  *)
C3_AsStated ==
    InProcessCall => last.invoked = <<plugin.server.pathToHandleFunc[last.path]>>

(* C3, amended: ... provided the Client's Format is valid and the request is *)
(* nil or a proto.Message; otherwise Call returns an error before the Runner *)
(* and no handle function is invoked.                                        *)
C3_InProcessDispatch ==
    InProcessCall =>
        IF validateFormat(client.format) /\ last.request.kind # "other"
        THEN last.invoked = <<plugin.server.pathToHandleFunc[last.path]>>
        ELSE last.invoked = <<>> /\ ~last.env.ran /\ last.retErr # NilErr

(* A Call for the procedure with custom args has invoked its handle function. *)
C3_Witness ==
    /\ InProcessCall
    /\ last.procedure.args # <<>>
    /\ last.invoked = <<PathB>>
    /\ last.handled = 1

(* The user's handle function ran in the last Call and returned an Error *)
(* with a valid code and a non-empty message.                            *)
HandlerReturnedError ==
    /\ last.op = "Call"
    /\ last.handled = 1
    /\ IsRpcError(last.answer.err)
    /\ isValidCode(ErrorCode(last.answer.err))
    /\ ErrorString(ErrorUnwrap(last.answer.err)) # ""

(* C4: if the handle function returns an Error with a valid code c and a     *)
(* non-empty message m, Call returns an Error with code c whose unwrapped    *)
(* message is m, in both formats and through both runners.                   *)
C4_ErrorRoundTrip ==
    HandlerReturnedError =>
        /\ IsRpcError(last.retErr)
        /\ ErrorCode(last.retErr) = ErrorCode(last.answer.err)
        /\ ErrorString(ErrorUnwrap(last.retErr)) = ErrorString(ErrorUnwrap(last.answer.err))

(* Through the subprocess runner, in JSON: DeadlineExceeded, "hello". *)
C4_Witness ==
    /\ HandlerReturnedError
    /\ client.runner = "exec"
    /\ client.format = FormatJSON
    /\ ErrorCode(last.retErr) = CodeDeadlineExceeded
    /\ ErrorString(ErrorUnwrap(last.retErr)) = "hello"

(* C7: if the Runner's run of the procedure returns an error, Call returns *)
(* an ExitError with a non-zero exit code, the child's own when the runner *)
(* reported an ExitError and 1 otherwise, and leaves the response alone.   *)
C7_RunnerErrorIsExitError ==
    last.op = "Call" /\ last.env.ran /\ last.runErr # NilErr =>
        /\ IsExitError(last.retErr)
        /\ ExitCode(last.retErr) # 0
        /\ ExitCode(last.retErr) = IF ErrorsAs(last.runErr, "exit") # <<>>
                                   THEN last.exit ELSE 1
        /\ last.response = last.before

(* A child that exited with 2 while the caller's response held a message. *)
C7_Witness ==
    /\ last.op = "Call"
    /\ last.runErr # NilErr
    /\ last.exit = 2
    /\ ExitCode(last.retErr) = 2
    /\ last.before = Message("resp", "old")
    /\ last.response = last.before

(* C8: a Call that reaches the Runner for procedure P of the cached Spec     *)
(* passes as Env.Args [P.path] when P has no args and P.args otherwise, then *)
(* --format and the name of the Client's format; Env.Stdin is the request    *)
(* envelope in that format, and empty for a nil request.                     *)
C8_EnvArgs ==
    last.op = "Call" /\ last.env.ran =>
        /\ last.path \in DOMAIN client.spec.pathToProcedure
        /\ last.procedure.path = last.path
        /\ last.procedure.args = client.spec.pathToProcedure[last.path].args
        /\ last.env.args =
               (IF last.procedure.args = <<>> THEN <<last.path>> ELSE last.procedure.args)
                   \o <<FormatFlag,
                        IF client.format = FormatBinary THEN formatBinaryString
                        ELSE formatJSONString>>
        /\ last.request.kind = "nil" => last.env.stdin = EmptyBytes
        /\ last.request.kind # "nil" =>
               /\ last.env.stdin.enc = client.format
               /\ last.env.stdin.kind = "request"
               /\ last.env.stdin.msg.value =
                      [present |-> TRUE, type |-> last.request.type,
                       body |-> last.request.body]

(* A Call for the procedure with custom args, in JSON, with a request. *)
C8_Witness ==
    /\ last.op = "Call"
    /\ last.env.ran
    /\ last.procedure.args = <<ArgFo, ArgBa>>
    /\ client.format = FormatJSON
    /\ last.request.kind = "msg"

(* A Call with a nil request got as far as the Runner. *)
NilRequestRan == last.op = "Call" /\ last.request = NilValue /\ last.env.ran

(* C26: a Call with a nil request hands the Runner an empty stdin; the       *)
(* Server's Handle, on that empty stdin, calls the handle function exactly   *)
(* once with the request at its zero value and, when the handle function     *)
(* returns a response and no error, writes the normal Response envelope of   *)
(* that response and the run succeeds.                                       *)
C26_NilRequestTolerated ==
    /\ NilRequestRan => last.env.stdin = EmptyBytes
    /\ NilRequestRan /\ last.invoked # <<>> =>
           /\ last.handled = 1
           /\ last.given = Message("req", "")
           /\ last.answer.err = NilErr /\ toProtoMessageOk(last.answer.response) =>
                  /\ last.runErr = NilErr
                  /\ last.stdout
                         = CodecMarshal(client.format, "response",
                                        ResponseEnvelope(
                                            IF last.answer.response.kind = "nil"
                                            THEN NilAny
                                            ELSE AnyNew(last.answer.response),
                                            NilProtoError))

(* Call(/a, nil, response) in JSON: the echo handler got the zero request and *)
(* the caller its empty echo.                                                 *)
C26_Witness ==
    /\ NilRequestRan
    /\ client.format = FormatJSON
    /\ last.path = PathA
    /\ last.invoked = <<PathA>>
    /\ last.handled = 1
    /\ last.answer = [response |-> Message("resp", ""), err |-> NilErr]
    /\ last.retErr = NilErr
    /\ last.response = Message("resp", "")

(* The callers that are inside Spec(): as readers, and under the write lock. *)
InSpecReading == {i \in Callers : callers[i].pc = "rcheck"}
InSpecWriting == {i \in Callers : callers[i].pc \in {"wcheck", "protocol", "spec"}}

(* The lock is held by callers inside Spec() only. *)
LockHeldInSpecOnly ==
    /\ client.readers = InSpecReading
    /\ client.writers = InSpecWriting

(* C36: when Runner invocations return and the callers are scheduled fairly, *)
(* every Spec() and every Call that has begun returns, and the Client's lock *)
(* is held only by callers that are inside Spec(): whenever none is, also    *)
(* after a failed handshake, the lock is free.                               *)
C36_NoDeadlock ==
    /\ [](LockHeldInSpecOnly)
    /\ \A i \in Callers : [](callers[i].pc # "idle" => <>(callers[i].pc = "idle"))

(* After a failed handshake no caller is inside Spec(), a Call has returned *)
(* the failure, and the lock is free.                                       *)
C36_Witness ==
    /\ client.specErr # NilErr
    /\ \A i \in Callers : callers[i].pc = "idle"
    /\ last.op = "Call"
    /\ last.retErr = client.specErr
    /\ client.readers = {}
    /\ client.writers = {}

(* The Call that returned last was made on a Client whose Spec is cached. *)
CallOnCachedSpec == last.op = "Call" /\ client.spec.kind = "spec"

(* The path of that Call is the path of a procedure of the cached Spec. *)
PathInCachedSpec ==
    \E k \in 1..Len(Procedures(client.spec)) :
        Procedures(client.spec)[k].path = last.path

(* C33: once the Spec is cached, a Call reaches the Runner exactly when the  *)
(* Client's Format is valid, the procedure path is in the Spec and the       *)
(* request marshals; it then invokes the Runner once, so that at most one    *)
(* handle function runs, whether or not the run fails.  A Call for a path    *)
(* that is not in the Spec returns `no procedure for path`, and a Call on a  *)
(* Client with an invalid Format the Format's error, without any run.        *)
C33_OneCallOneRun ==
    CallOnCachedSpec =>
        /\ last.env.ran <=>
               /\ validateFormat(client.format)
               /\ PathInCachedSpec
               /\ toProtoMessageOk(last.request)
        /\ Len(last.invoked) <= 1
        /\ last.handled <= 1
        /\ ~last.env.ran => last.invoked = <<>> /\ last.handled = 0
        /\ validateFormat(client.format) /\ ~PathInCachedSpec =>
               last.retErr = PlainErr("no procedure for path")
        /\ ~validateFormat(client.format) =>
               last.retErr = PlainErr("unknown Format")

(* A Call whose run failed has returned the failure: the Runner was not *)
(* invoked a second time.                                               *)
C33_Witness ==
    /\ CallOnCachedSpec
    /\ PathInCachedSpec
    /\ last.env.ran
    /\ last.runErr # NilErr
    /\ IsExitError(last.retErr)
    /\ Len(last.invoked) <= 1

(* The Call that returned last ran the plugin, and Serve selected a handler. *)
CallServed == last.op = "Call" /\ last.env.ran /\ last.invoked # <<>>

(* The bytes are empty or in the encoding of format. *)
EncodedIn(format, data) == data = EmptyBytes \/ data.enc = format

(* The --spec run was served by the plugin's Server, in this process. *)
HandshakeServed ==
    /\ client.runner = "server"
    /\ validateFormat(client.format)
    /\ runs.handshake.ran

(* C34: for a Client with the valid format f, the handler Serve selects gets *)
(* f as its Format option; the request it reads is in f and it decodes it,   *)
(* calling the handle function with the caller's request; what it writes is  *)
(* in f, and the Client decodes it as f.  The --spec run gives the Server's  *)
(* Spec marshalled in f, which the Client decodes as the Spec it caches.     *)
C34_FormatsAgree ==
    /\ CallServed =>
           /\ last.served = client.format
           /\ EncodedIn(client.format, last.env.stdin)
           /\ last.handled = 1
           /\ last.request.kind = "msg" => last.given.body = last.request.body
           /\ EncodedIn(client.format, last.stdout)
           /\ last.retErr # PlainErr("proto: cannot parse response")
    /\ HandshakeServed =>
           /\ runs.handshake.err = NilErr
           /\ runs.handshake.stdout
                  = marshalSpec(client.format, NewProtoSpec(plugin.server.spec)).data
           /\ runs.handshake.stdout.enc = client.format
           /\ runs.memo.err = NilErr
           /\ Procedures(runs.memo.spec) = Procedures(plugin.server.spec)

(* A Client in JSON called the echo procedure through the Server in this     *)
(* process: the handler worked in JSON and the caller got the echo.          *)
C34_Witness ==
    /\ CallServed
    /\ HandshakeServed
    /\ client.format = FormatJSON
    /\ last.served = FormatJSON
    /\ last.request = Message("req", "hi")
    /\ last.stdout.enc = FormatJSON
    /\ last.retErr = NilErr
    /\ last.response = Message("resp", "hi")

(***************************************************************************)
(* The server specification: one invocation of Handle, of Serve, or of     *)
(* Main on the plugin's side, as a function of its environment: the Format *)
(* option or the args, what reading stdin gives, what the user's handle    *)
(* function answers, and which writes to stdout fail.                      *)
(***************************************************************************)
MaxWrites == 2

StdinPool ==
    { [err |-> PlainErr("read failed"), data |-> EmptyBytes],
      [err |-> NilErr, data |-> EmptyBytes],
      [err |-> NilErr, data |-> marshalRequest(FormatBinary, Message("req", "hi")).data],
      [err |-> NilErr, data |-> marshalRequest(FormatJSON, Message("req", "hi")).data],
      [err |-> NilErr, data |-> GarbageBytes] }

HelpFlag == <<"-", "-", "h", "e", "l", "p">>
HelpShort == <<"-", "h">>
BogusFlag == <<"-", "-", "b", "o", "g", "u", "s">>
BogusShort == <<"-", "x">>

ServeArgs ==
    { <<PathA>>,
      <<PathA, FormatFlag, formatJSONString>>,
      <<ArgFo, ArgBa>>,
      <<ArgFo, ArgBa, FormatFlag, formatBinaryString>>,
      <<FormatFlag, formatJSONString, PathB>>,
      <<PathC>>,
      <<>>,
      <<ProtocolFlag>>,
      <<SpecFlag>>,
      <<SpecFlag, FormatFlag, formatJSONString>>,
      <<ProtocolFlag, SpecFlag>>,
      <<PathA, FormatFlag, <<"x", "m", "l">>>>,
      <<HelpFlag>>,
      <<HelpShort>>,
      <<FormatFlag, formatJSONString>>,
      <<ProtocolFlag, PathA>>,
      <<ArgFo, ArgBa, ProtocolFlag>>,
      <<ProtocolFlag, FormatFlag, <<"x", "m", "l">>>>,
      <<SpecFlag, ArgFo, ArgBa>>,
      <<SpecFlag, ProtocolFlag, PathA>>,
      <<ProtocolFlag, SpecFlag, HelpFlag>>,
      <<PathA, BogusFlag>>,
      <<BogusFlag, ProtocolFlag>>,
      <<BogusShort, SpecFlag>>,
      <<HelpShort, BogusFlag>>,
      <<PathA, FormatFlag, <<"J", "S", "O", "N">>>>,
      <<PathA, FormatFlag, <<" ", "j", "s", "o", "n">>>>,
      <<PathA, FormatFlag, <<>>>>,
      <<PathA, FormatFlag \o <<"=", "B", "i", "n", "a", "r", "y">>>> }

(* The Servers behind Serve: the plugin's, and one whose two procedures *)
(* both have no args.                                                   *)
BareProcedures == <<Procedure(PathB, <<>>), Procedure(PathA, <<>>)>>

BareServer ==
    newServer(NewSpec(BareProcedures).spec,
              RegisterAll(newServerRegistrar, <<PathB, PathA>>)).server

ServedServers == {PluginServer, BareServer}

ServerInvocation(op, format, args, stdin, ho, writeFails) ==
    [op |-> op, format |-> format, args |-> args, stdin |-> stdin, ho |-> ho,
     writeFails |-> writeFails, done |-> FALSE,
     err |-> NilErr, writes |-> <<>>, invoked |-> <<>>, handled |-> 0,
     answer |-> NoHandlerAnswer, exit |-> 0]

InitServer ==
    /\ \E stdin \in StdinPool, ho \in HandlerOutcomes, writeFails \in SUBSET (1..MaxWrites) :
           \/ \E format \in 0..(maxFormat + 1) :
                  srv = ServerInvocation("Handle", format, <<>>, stdin, ho, writeFails)
           \/ \E op \in {"Serve", "Main", "Run"}, args \in ServeArgs :
                  srv = ServerInvocation(op, 0, args, stdin, ho, writeFails)
    /\ \E server \in ServedServers :
           plugin = [server |-> server, answers |-> HandlerOutcomes,
                     exitCodes |-> ChildExitCodes]
    /\ client = Unused
    /\ callers = Unused
    /\ runs = Unused
    /\ last = Unused
    /\ ctor = Unused
    /\ reg = Unused
    /\ heap = Unused
    /\ child = Unused

(* handler.Handle(ctx, handleEnv, request, handle, HandleWithFormat(format)) *)
SrvHandle ==
    /\ srv.op = "Handle"
    /\ ~srv.done
    /\ LET r == Handle(srv.format, srv.stdin, Message("req", ""), srv.ho, srv.writeFails)
       IN  srv' = [srv EXCEPT !.done = TRUE, !.err = r.err, !.writes = r.writes,
                              !.handled = r.handled, !.answer = r.answer]
    /\ UNCHANGED <<client, callers, runs, last, plugin, ctor, reg, heap, child>>

(* server.Serve(ctx, env) *)
SrvServe ==
    /\ srv.op = "Serve"
    /\ ~srv.done
    /\ LET r == Serve(plugin.server, srv.args, srv.stdin, srv.ho, srv.writeFails)
       IN  srv' = [srv EXCEPT !.done = TRUE, !.err = r.err, !.writes = r.writes,
                              !.invoked = r.invoked,
                              !.handled = r.handled, !.answer = r.answer]
    /\ UNCHANGED <<client, callers, runs, last, plugin, ctor, reg, heap, child>>

(* Main(newServer): Serve on the OS environment, then the exit of the process. *)
SrvMain ==
    /\ srv.op = "Main"
    /\ ~srv.done
    /\ LET r == Serve(plugin.server, srv.args, srv.stdin, srv.ho, srv.writeFails)
       IN  srv' = [srv EXCEPT !.done = TRUE, !.err = r.err, !.writes = r.writes,
                              !.invoked = r.invoked,
                              !.handled = r.handled, !.answer = r.answer,
                              !.exit = MainExitCode(r.err)]
    /\ UNCHANGED <<client, callers, runs, last, plugin, ctor, reg, heap, child>>

(* serverRunner.Run(ctx, env): return s.server.Serve(ctx, env) *)
SrvRun ==
    /\ srv.op = "Run"
    /\ ~srv.done
    /\ LET r == Serve(plugin.server, srv.args, srv.stdin, srv.ho, srv.writeFails)
       IN  srv' = [srv EXCEPT !.done = TRUE, !.err = r.err, !.writes = r.writes,
                              !.invoked = r.invoked,
                              !.handled = r.handled, !.answer = r.answer]
    /\ UNCHANGED <<client, callers, runs, last, plugin, ctor, reg, heap, child>>

NextServer == SrvHandle \/ SrvServe \/ SrvMain \/ SrvRun

SpecServer == InitServer /\ [][NextServer]_vars

(* The user's handle function was called and returned an error. *)
HandlerFailed == srv.done /\ srv.handled = 1 /\ srv.answer.err # NilErr

(* data is a Response envelope that holds an error and no value. *)
IsErrorEnvelope(data) ==
    /\ data.kind = "response"
    /\ ~data.msg.value.present
    /\ data.msg.error.present

(* Exactly one write was made, it succeeded, and it is the Response envelope *)
(* holding only the handler's error.                                         *)
HandlerErrorWritten ==
    /\ Len(srv.writes) = 1
    /\ srv.writes[1].ok
    /\ IsErrorEnvelope(srv.writes[1].data)
    /\ srv.writes[1].data.msg.error.code = ErrorCode(WrapError(srv.answer.err))
    /\ srv.writes[1].data.msg.error.message
           = ErrorString(ErrorUnwrap(WrapError(srv.answer.err)))

(* C5, as stated: when the user's handle function returns an error (and    *)
(* stdout works), Handle writes a Response envelope holding only that      *)
(* error and then returns a non-nil error, so that Serve returns a non-nil *)
(* error and the plugin process exits with code 1.                         *)
C5_AsStated ==
    HandlerFailed /\ srv.writeFails = {} =>
        /\ HandlerErrorWritten
        /\ srv.err # NilErr
        /\ srv.op = "Main" => srv.exit = 1

(* C5, amended: ... Handle writes a Response envelope holding only that     *)
(* error and then returns nil, so that Serve returns nil and the plugin     *)
(* process exits with code 0; Handle returns a non-nil error, and the       *)
(* process exits with code 1, only if that write fails.                     *)
C5_HandlerErrorWritten ==
    HandlerFailed =>
        IF 1 \notin srv.writeFails
        THEN /\ HandlerErrorWritten
             /\ srv.err = NilErr
             /\ srv.op = "Main" => srv.exit = 0
        ELSE /\ srv.err # NilErr
             /\ srv.op = "Main" => srv.exit = 1

(* A plugin process whose handler returned DeadlineExceeded "hello" wrote the *)
(* envelope and exited with 0.                                                *)
C5_Witness ==
    /\ HandlerFailed
    /\ srv.op = "Main"
    /\ srv.writeFails = {}
    /\ srv.answer.err = NewError(CodeDeadlineExceeded, PlainErr("hello"))
    /\ HandlerErrorWritten
    /\ srv.exit = 0

(* C6, as stated: whenever Handle returns a non-nil error, an error Response *)
(* envelope has been written to stdout.                                      *)
C6_AsStated ==
    srv.done /\ srv.op = "Handle" /\ srv.err # NilErr =>
        \E k \in 1..Len(srv.writes) :
            srv.writes[k].ok /\ IsErrorEnvelope(srv.writes[k].data)

(* The invocation has one of the failures the claim lists, apart from the *)
(* Format: stdin cannot be read, the request cannot be decoded, or the    *)
(* user's handle function returns an error.                               *)
HandleFailure ==
    \/ srv.stdin.err # NilErr
    \/ srv.stdin.data = GarbageBytes
    \/ srv.stdin.data.enc \notin {0, srv.format}
    \/ srv.handled = 1 /\ srv.answer.err # NilErr

(* C6, amended: for an invalid Format option Handle returns a non-nil error  *)
(* and writes nothing.  For a valid one, an error of Handle (a stdin read    *)
(* failure, a request decode failure, a handler error) is written to stdout  *)
(* as an error Response envelope and Handle then returns nil; Handle returns *)
(* a non-nil error only when the write of that envelope failed.              *)
C6_ErrorsWritten ==
    srv.done /\ srv.op = "Handle" =>
        /\ ~validateFormat(srv.format) => srv.err # NilErr /\ srv.writes = <<>>
        /\ validateFormat(srv.format) /\ srv.err # NilErr =>
               /\ srv.writes # <<>>
               /\ ~srv.writes[Len(srv.writes)].ok
               /\ IsErrorEnvelope(srv.writes[Len(srv.writes)].data)
        /\ validateFormat(srv.format) /\ HandleFailure /\ srv.writeFails = {} =>
               /\ srv.err = NilErr
               /\ Len(srv.writes) = 1
               /\ srv.writes[1].ok
               /\ IsErrorEnvelope(srv.writes[1].data)

(* Handle, given an invalid Format option, has returned an error. *)
C6_Witness ==
    /\ srv.done
    /\ srv.op = "Handle"
    /\ ~validateFormat(srv.format)
    /\ srv.err # NilErr
    /\ srv.stdin.err = NilErr


(* Serve or Main has returned. *)
Served == srv.done /\ srv.op \in {"Serve", "Main"}

(* The flags of the invocation parsed without error (so help was not asked *)
(* for) and ask for neither --protocol nor --spec.                         *)
ProcedureInvocation ==
    /\ Served
    /\ parseFlags(srv.args).err = NilErr
    /\ ~parseFlags(srv.args).printProtocol
    /\ ~parseFlags(srv.args).printSpec

(* Procedure i of the Server's Spec is selected by the positional args. *)
Selects(i) ==
    \/ parseFlags(srv.args).args = <<Procedures(plugin.server.spec)[i].path>>
    \/ parseFlags(srv.args).args = Procedures(plugin.server.spec)[i].args

C19_HandshakeQueries ==
    Served /\ parseFlags(srv.args).err = NilErr
           /\ (parseFlags(srv.args).printProtocol \/ parseFlags(srv.args).printSpec) =>
        /\ srv.invoked = <<>>
        /\ srv.handled = 0
        /\ Len(srv.writes) = 1
        /\ srv.writes[1].ok = (1 \notin srv.writeFails)
        /\ (srv.err = NilErr) = srv.writes[1].ok
        /\ parseFlags(srv.args).printProtocol =>
               srv.writes[1].data = [enc |-> 0, kind |-> "text", msg |-> <<"1", "\n">>]
        /\ ~parseFlags(srv.args).printProtocol =>
               /\ srv.writes[1].data.enc = parseFlags(srv.args).format
               /\ srv.writes[1].data.kind = "spec"
               /\ srv.writes[1].data.msg
                      = [i \in 1..Len(Procedures(plugin.server.spec)) |->
                            [path |-> Procedures(plugin.server.spec)[i].path,
                             args |-> Procedures(plugin.server.spec)[i].args]]

(* --protocol with the args of a procedure, on a stdin that cannot be read: *)
(* Serve wrote the version and returned nil.                                *)
C19_Witness ==
    /\ Served
    /\ srv.args = <<ArgFo, ArgBa, ProtocolFlag>>
    /\ srv.stdin.err # NilErr
    /\ srv.err = NilErr
    /\ Len(srv.writes) = 1

(* The args carry both --protocol and --spec, or an unknown flag, and do not *)
(* ask for help.                                                             *)
BadFlags ==
    /\ \/ ProtocolFlag \in Range(srv.args) /\ SpecFlag \in Range(srv.args)
       \/ BogusFlag \in Range(srv.args)
       \/ BogusShort \in Range(srv.args)
    /\ HelpFlag \notin Range(srv.args)
    /\ HelpShort \notin Range(srv.args)

FormatValues ==
    { formatBinaryString, formatJSONString, <<"x", "m", "l">>, <<"J", "S", "O", "N">>,
      <<" ", "j", "s", "o", "n">>, <<>>, <<"B", "i", "n", "a", "r", "y">> }

(* args give --format the value v, as the next arg or after "=". *)
HasFormatValue(args, v) ==
    \E i \in 1..Len(args) :
        \/ args[i] = FormatFlag /\ i < Len(args) /\ args[i + 1] = v
        \/ args[i] = FormatFlag \o <<"=">> \o v

(* Serve failed on the value of --format before doing anything. *)
FormatRejected ==
    /\ parseFlags(srv.args).err = PlainErr("invalid value for --format")
    /\ srv.err = PlainErr("invalid value for --format")
    /\ srv.invoked = <<>>
    /\ srv.writes = <<>>

(* The flags parsed and selected format, which is the encoding of what the *)
(* invoked handler or the --spec query wrote.                              *)
FormatSelected(format) ==
    /\ parseFlags(srv.args).err = NilErr
    /\ parseFlags(srv.args).format = format
    /\ srv.err # PlainErr("invalid value for --format")
    /\ \A k \in 1..Len(srv.writes) :
           srv.writes[k].data.kind \in {"response", "spec"} =>
               srv.writes[k].data.enc = format

C27_AsStated ==
    srv.done /\ srv.op = "Run" /\ srv.err # NilErr => IsExitError(srv.err)

(* Handle could not get its request: reading stdin failed, or the bytes read *)
(* are not a Request envelope in the Format of the invocation.  A terminal   *)
(* on stdin is read as no bytes without an error (readStdin), which is the   *)
(* element of StdinPool with empty data.                                     *)
RequestUnavailable ==
    \/ srv.stdin.err # NilErr
    \/ srv.stdin.data = GarbageBytes
    \/ srv.stdin.data.enc \notin {0, srv.format}

(* The error Handle got instead of its request. *)
RequestError ==
    IF srv.stdin.err # NilErr THEN srv.stdin.err
    ELSE unmarshalRequest(srv.format, srv.stdin.data, Message("req", "")).err

(* C31: within one Handle invocation (with a valid Format) the user's handle *)
(* function is called at most once, and only when stdin was read and the     *)
(* request decoded without an error; when reading stdin or decoding the      *)
(* request fails, the handle function is not called and the one write made   *)
(* to stdout is the error Response envelope holding that error.              *)
C31_HandleAfterDecode ==
    srv.done /\ srv.op = "Handle" /\ validateFormat(srv.format) =>
        /\ srv.handled \in {0, 1}
        /\ srv.handled = 1 => ~RequestUnavailable
        /\ RequestUnavailable =>
               /\ srv.handled = 0
               /\ srv.answer = NoHandlerAnswer
               /\ Len(srv.writes) = 1
               /\ srv.writes[1].ok = (1 \notin srv.writeFails)
               /\ IsErrorEnvelope(srv.writes[1].data)
               /\ srv.writes[1].data.msg.error.code = ErrorCode(WrapError(RequestError))
               /\ srv.writes[1].data.msg.error.message = ErrorString(RequestError)

(* Handle was given bytes that are no Request envelope, with a handle function *)
(* that would have answered, and wrote the decode error instead.              *)
C31_Witness ==
    /\ srv.done
    /\ srv.op = "Handle"
    /\ srv.format = FormatJSON
    /\ srv.stdin.err = NilErr
    /\ srv.stdin.data = GarbageBytes
    /\ srv.ho.err = NilErr
    /\ srv.handled = 0
    /\ Len(srv.writes) = 1
    /\ srv.writes[1].ok
    /\ IsErrorEnvelope(srv.writes[1].data)

(* data is a Response envelope without an error: it holds the response, or *)
(* nothing at all when the handle function returned a nil response.        *)
IsSuccessEnvelope(data) ==
    \/ data = EmptyBytes
    \/ data.kind = "response" /\ ~data.msg.error.present

(* The handle function answered without an error and its response marshals. *)
ResponseReady ==
    /\ srv.handled = 1
    /\ srv.answer.err = NilErr
    /\ toProtoMessageOk(srv.answer.response)

(* C32, as stated: in one Handle invocation at most one write is made to   *)
(* stdout, of a success envelope or of an error envelope, also when a      *)
(* write to stdout fails.                                                  *)
C32_AsStated ==
    srv.done /\ srv.op = "Handle" =>
        /\ Len(srv.writes) <= 1
        /\ \A k \in 1..Len(srv.writes) :
               IsSuccessEnvelope(srv.writes[k].data) \/ IsErrorEnvelope(srv.writes[k].data)

(* C32, amended: in one Handle invocation at most one write to stdout      *)
(* succeeds, and every write is a success envelope or an error envelope.   *)
(* A second write is made exactly when the write of the success envelope   *)
(* failed: it is the error envelope that reports this failure.  After a    *)
(* write that succeeded, and after a write of an error envelope, no other  *)
(* write is made.                                                          *)
C32_OneEnvelopeLands ==
    srv.done /\ srv.op = "Handle" =>
        /\ Len(srv.writes) <= 2
        /\ Cardinality({k \in 1..Len(srv.writes) : srv.writes[k].ok}) <= 1
        /\ \A k \in 1..Len(srv.writes) :
               IsSuccessEnvelope(srv.writes[k].data) \/ IsErrorEnvelope(srv.writes[k].data)
        /\ Len(srv.writes) = 2 <=>
               validateFormat(srv.format) /\ ResponseReady /\ 1 \in srv.writeFails
        /\ Len(srv.writes) = 2 =>
               /\ ~srv.writes[1].ok
               /\ IsSuccessEnvelope(srv.writes[1].data)
               /\ IsErrorEnvelope(srv.writes[2].data)
               /\ srv.writes[2].data.msg.error.code = CodeUnknown
               /\ srv.writes[2].data.msg.error.message
                      = "failed to write response to stdout: write failed"

(* The write of the response failed and Handle then wrote, with success, the *)
(* error envelope that reports it.                                           *)
C32_Witness ==
    /\ srv.done
    /\ srv.op = "Handle"
    /\ ResponseReady
    /\ srv.answer.response = Message("resp", "hi")
    /\ srv.writeFails = {1}
    /\ Len(srv.writes) = 2
    /\ srv.writes[2].ok
    /\ srv.err = NilErr

(* C29: an invocation without positional args, whose flags parse and ask for *)
(* neither --protocol, --spec nor help, selects no procedure: Serve invokes  *)
(* no handle function and returns "args not recognized", also when the Spec  *)
(* has procedures declared without args.                                     *)
C29_AsStated ==
    ProcedureInvocation /\ parseFlags(srv.args).args = <<>> =>
        /\ srv.invoked = <<>>
        /\ srv.handled = 0
        /\ srv.err = PlainErr("args not recognized")

(* C30: for the Spec of the Server and the positional args of the          *)
(* invocation, at most one procedure satisfies the match predicate of the  *)
(* dispatch.                                                               *)
C30_AsStated ==
    ProcedureInvocation =>
        \A i, j \in 1..Len(Procedures(plugin.server.spec)) :
            Selects(i) /\ Selects(j) => i = j

(***************************************************************************)
(* The registrar specification: one serverRegistrar, goroutines that each  *)
(* call Register once, and one NewServer on it, interleaved step by step.  *)
(* A handle function is named by the goroutine that registers it; the      *)
(* caller of NewServer holds the mutex as 0.  order lists the Register     *)
(* calls in the order the mutex admitted them.                             *)
(***************************************************************************)
NumRegisters == 3

Registerers == 1..NumRegisters

RegisterPaths == {PathA, PathB}

(* The Specs NewServer is given: one procedure, and the plugin's two. *)
ServerSpecs == {NewSpec(<<Procedure(PathA, <<>>)>>).spec, NewSpec(PluginProcedures).spec}

NoDrain == [registrar |-> newServerRegistrar, map |-> <<>>, err |-> NilErr]

InitRegistrar ==
    /\ reg = [s |-> newServerRegistrar,
              holders |-> {},
              calls |-> [i \in Registerers |->
                            [pc |-> "idle", path |-> <<>>, branch |-> "none", late |-> FALSE]],
              order |-> <<>>,
              pc |-> "idle",
              spec |-> NilSpec,
              sealed |-> [set |-> FALSE, map |-> <<>>, errs |-> <<>>],
              drained |-> NoDrain,
              server |-> NilServer,
              err |-> NilErr]
    /\ client = Unused
    /\ callers = Unused
    /\ runs = Unused
    /\ last = Unused
    /\ plugin = Unused
    /\ srv = Unused
    /\ ctor = Unused
    /\ heap = Unused
    /\ child = Unused

RegUnchanged == UNCHANGED <<client, callers, runs, last, plugin, srv, ctor, heap, child>>

(* Register(path, handleFunc): s.lock.Lock() returns. *)
RegLock(i) ==
    /\ reg.calls[i].pc = "idle"
    /\ MutexFree(reg.holders)
    /\ \E path \in RegisterPaths :
           reg' = [reg EXCEPT !.holders = @ \cup {i},
                              !.order = Append(@, i),
                              !.calls[i] = [pc |-> "check", path |-> path,
                                            branch |-> "none", late |-> reg.s.read]]
    /\ RegUnchanged

(* It reads s.read and looks the path up in the map. *)
RegCheck(i) ==
    /\ reg.calls[i].pc = "check"
    /\ reg' = [reg EXCEPT !.calls[i].pc = "write",
                          !.calls[i].branch = RegisterBranch(reg.s, reg.calls[i].path)]
    /\ RegUnchanged

(* It appends its error or stores the handle function. *)
RegWrite(i) ==
    /\ reg.calls[i].pc = "write"
    /\ reg' = [reg EXCEPT !.calls[i].pc = "unlock",
                          !.s = RegisterWrite(reg.s, reg.calls[i].path, i, reg.calls[i].branch)]
    /\ RegUnchanged

(* The deferred s.lock.Unlock(). *)
RegUnlock(i) ==
    /\ reg.calls[i].pc = "unlock"
    /\ reg' = [reg EXCEPT !.calls[i].pc = "done", !.holders = @ \ {i}]
    /\ RegUnchanged

(* NewServer(spec, registrar): pathToHandleFunc's s.lock.Lock() returns. *)
DrainLock ==
    /\ reg.pc = "idle"
    /\ MutexFree(reg.holders)
    /\ \E spec \in ServerSpecs :
           reg' = [reg EXCEPT !.pc = "seal", !.spec = spec, !.holders = @ \cup {0}]
    /\ RegUnchanged

(* s.read = true *)
DrainSeal ==
    /\ reg.pc = "seal"
    /\ reg' = [reg EXCEPT !.pc = "return",
                          !.s.read = TRUE,
                          !.sealed = [set |-> TRUE, map |-> reg.s.pathToHandleFuncMap,
                                      errs |-> reg.s.errs]]
    /\ RegUnchanged

(* It returns the joined errors, or the map; the deferred Unlock runs. *)
DrainReturn ==
    /\ reg.pc = "return"
    /\ reg' = [reg EXCEPT !.pc = "validate",
                          !.drained = pathToHandleFunc(reg.s),
                          !.holders = @ \ {0}]
    /\ RegUnchanged

(* The rest of newServer: the Spec against the registered paths. *)
NewServerReturn ==
    /\ reg.pc = "validate"
    /\ reg' = [reg EXCEPT !.pc = "done",
                          !.server = newServerDrained(reg.spec, reg.drained).server,
                          !.err = newServerDrained(reg.spec, reg.drained).err]
    /\ RegUnchanged

NextRegistrar ==
    \/ \E i \in Registerers : RegLock(i)
    \/ \E i \in Registerers : RegCheck(i)
    \/ \E i \in Registerers : RegWrite(i)
    \/ \E i \in Registerers : RegUnlock(i)
    \/ DrainLock
    \/ DrainSeal
    \/ DrainReturn
    \/ NewServerReturn

SpecRegistrar == InitRegistrar /\ [][NextRegistrar]_vars

(***************************************************************************)
(* Properties of the registrar and of NewServer.                           *)
(***************************************************************************)
SpecPaths(spec) == {Procedures(spec)[i].path : i \in 1..Len(Procedures(spec))}

(* C15: NewServer succeeds exactly when the registrar accumulated no error   *)
(* and the registered paths are the paths of the Spec's procedures.  With no *)
(* registrar error, a registered path absent from the Spec makes it fail     *)
(* with "not contained within spec"; with every registered path in the Spec, *)
(* a Spec path without registration makes it fail with "not registered".     *)
C15_NewServerValidates ==
    reg.pc = "done" =>
        /\ reg.err = NilErr <=>
               /\ reg.sealed.errs = <<>>
               /\ DOMAIN reg.sealed.map = SpecPaths(reg.spec)
        /\ reg.err = NilErr =>
               /\ reg.server.spec = reg.spec
               /\ reg.server.pathToHandleFunc = reg.sealed.map
        /\ reg.err # NilErr => reg.server = NilServer
        /\ reg.sealed.errs # <<>> => reg.err = Concat(reg.sealed.errs)
        /\ reg.sealed.errs = <<>> /\ ~(DOMAIN reg.sealed.map \subseteq SpecPaths(reg.spec)) =>
               reg.err = PlainErr("path not contained within spec")
        /\ /\ reg.sealed.errs = <<>>
           /\ DOMAIN reg.sealed.map \subseteq SpecPaths(reg.spec)
           /\ DOMAIN reg.sealed.map # SpecPaths(reg.spec)
           => reg.err = PlainErr("path not registered")

(* NewServer succeeded for the Spec of two procedures on a registrar that *)
(* two goroutines filled.                                                 *)
C15_Witness ==
    /\ reg.pc = "done"
    /\ reg.err = NilErr
    /\ DOMAIN reg.server.pathToHandleFunc = {PathA, PathB}
    /\ reg.server.pathToHandleFunc[PathA] # reg.server.pathToHandleFunc[PathB]

(* Register call i has written what it writes. *)
Written(i) == reg.calls[i].pc \in {"unlock", "done"}

AlreadyUsed(n) == [k \in 1..n |-> PlainErr("server registrar already used")]

(* C16: once pathToHandleFunc has run, read stays set, the map is the one   *)
(* that was there at the seal, and every Register that begins afterwards    *)
(* takes the "already used" branch: the errors are those at the seal and    *)
(* one "server registrar already used" per such Register, and nothing else. *)
C16_SealedForever ==
    reg.sealed.set =>
        /\ reg.s.read
        /\ reg.s.pathToHandleFuncMap = reg.sealed.map
        /\ reg.pc \in {"validate", "done"} /\ reg.drained.err = NilErr =>
               reg.drained.map = reg.s.pathToHandleFuncMap
        /\ \A i \in Registerers :
               reg.calls[i].late /\ reg.calls[i].branch # "none" =>
                   reg.calls[i].branch = "used"
        /\ reg.s.errs = reg.sealed.errs
               \o AlreadyUsed(Cardinality({i \in Registerers : Written(i) /\ reg.calls[i].late}))

(* Two Registers that began after the seal have each appended their error. *)
C16_Witness ==
    /\ reg.sealed.set
    /\ Cardinality({i \in Registerers : reg.calls[i].pc = "done" /\ reg.calls[i].late}) >= 2
    /\ reg.sealed.map # <<>>
    /\ Len(reg.s.errs) >= 2

(* C17: under every interleaving, a Register takes effect as a whole before  *)
(* the seal (its handle function is in the map at the seal, or it recorded a *)
(* duplicate-path error) or after it (it recorded an already-used error and  *)
(* its handle function is not in the map); for each registered path exactly  *)
(* one Register stored its handle function, and every other Register that    *)
(* wrote recorded exactly one error.                                         *)
C17_RegisterAtomic ==
    /\ Cardinality(reg.holders) <= 1
    /\ \A i \in Registerers :
           Written(i) =>
               \/ /\ ~reg.calls[i].late
                  /\ reg.calls[i].branch = "store"
                  /\ reg.calls[i].path \in DOMAIN reg.s.pathToHandleFuncMap
                  /\ reg.s.pathToHandleFuncMap[reg.calls[i].path] = i
                  /\ reg.sealed.set =>
                         /\ reg.calls[i].path \in DOMAIN reg.sealed.map
                         /\ reg.sealed.map[reg.calls[i].path] = i
               \/ /\ ~reg.calls[i].late
                  /\ reg.calls[i].branch = "dup"
                  /\ reg.calls[i].path \in DOMAIN reg.s.pathToHandleFuncMap
                  /\ reg.s.pathToHandleFuncMap[reg.calls[i].path] # i
                  /\ reg.sealed.set => reg.calls[i].path \in DOMAIN reg.sealed.map
               \/ /\ reg.calls[i].late
                  /\ reg.calls[i].branch = "used"
                  /\ \A q \in DOMAIN reg.s.pathToHandleFuncMap :
                         reg.s.pathToHandleFuncMap[q] # i
    /\ \A q \in RegisterPaths :
           (\E i \in Registerers :
                Written(i) /\ reg.calls[i].path = q /\ ~reg.calls[i].late)
               => Cardinality({i \in Registerers :
                       Written(i) /\ reg.calls[i].path = q
                           /\ reg.calls[i].branch = "store"}) = 1
    /\ Len(reg.s.errs)
           = Cardinality({i \in Registerers :
                 Written(i) /\ reg.calls[i].branch \in {"dup", "used"}})

(* Three Registers and the drain have run: two for the same path before the *)
(* seal, one stored and one refused, and one after the seal.                *)
C17_Witness ==
    /\ reg.pc = "done"
    /\ \A i \in Registerers : reg.calls[i].pc = "done"
    /\ \E i, j, k \in Registerers :
           /\ reg.calls[i].branch = "store"
           /\ reg.calls[j].branch = "dup"
           /\ reg.calls[j].path = reg.calls[i].path
           /\ reg.calls[k].branch = "used"

(* The place of Register call i among the calls the mutex has admitted. *)
Turn(i) == CHOOSE k \in 1..Len(reg.order) : reg.order[k] = i

(* Register call i has returned before the seal, for a path that an earlier *)
(* Register call had named.                                                 *)
DuplicateBeforeSeal(i) ==
    /\ Written(i)
    /\ ~reg.calls[i].late
    /\ \E j \in Registerers \ {i} :
           /\ Written(j)
           /\ reg.calls[j].path = reg.calls[i].path
           /\ Turn(j) < Turn(i)

(* The first Register call for path q. *)
FirstRegistered(q) ==
    CHOOSE i \in Registerers :
        /\ Written(i)
        /\ reg.calls[i].path = q
        /\ \A j \in Registerers \ {i} :
               Written(j) /\ reg.calls[j].path = q => Turn(i) < Turn(j)

DrainReturned == reg.pc \in {"validate", "done"}

(* C40: every Register call returns, whatever it met, and leaves an error   *)
(* behind instead; if a Register before the seal named a path already       *)
(* registered, the drain returns the joined errors, with that call's error  *)
(* among them, and no mapping, and NewServer fails with that error; the     *)
(* handle function kept for a path is the one registered first.             *)
C40_FailuresSurfaceAtDrain ==
    /\ \A i \in Registerers :
           DuplicateBeforeSeal(i) =>
               /\ \E k \in 1..Len(reg.s.errs) :
                      reg.s.errs[k] = PlainErr("path " \o Text(reg.calls[i].path)
                                                  \o " already registered")
               /\ DrainReturned =>
                      /\ reg.drained.err # NilErr
                      /\ reg.drained.err = Concat(reg.sealed.errs)
                      /\ \E k \in 1..Len(reg.sealed.errs) :
                             reg.sealed.errs[k] = PlainErr("path " \o Text(reg.calls[i].path)
                                                              \o " already registered")
                      /\ reg.drained.map = <<>>
               /\ reg.pc = "done" =>
                      /\ reg.err = reg.drained.err
                      /\ reg.server = NilServer
    /\ \A q \in DOMAIN reg.s.pathToHandleFuncMap :
           reg.s.pathToHandleFuncMap[q] = FirstRegistered(q)
    /\ \A i \in Registerers :
           DuplicateBeforeSeal(i) =>
               \A q \in DOMAIN reg.s.pathToHandleFuncMap : reg.s.pathToHandleFuncMap[q] # i

(* NewServer has failed on a registrar where a path was registered twice    *)
(* before the seal: the map still holds the handle function of the first.   *)
C40_Witness ==
    /\ reg.pc = "done"
    /\ reg.err # NilErr
    /\ \E i, j \in Registerers :
           /\ DuplicateBeforeSeal(i)
           /\ Turn(j) < Turn(i)
           /\ reg.calls[j].path = reg.calls[i].path
           /\ reg.s.pathToHandleFuncMap[reg.calls[i].path] = j

(***************************************************************************)
(* The errors specification: one call of a constructor of ExitError or of  *)
(* Error, on a code and an error of the pools.                             *)
(***************************************************************************)
MaxExitCode == 3

ExitCodePool == (0 - 1)..MaxExitCode

(* Errors a caller can hold: nil, leaf errors, fmt.Errorf wrappers, Errors  *)
(* and ExitErrors made by the constructors, wrapped or not, and the zero    *)
(* values of the two exported struct types.                                 *)
ErrorPool ==
    { NilErr,
      PlainErr("boom"),
      PlainErr(""),
      <<FmtLayer("ctx: ")>> \o PlainErr("boom"),
      NewError(CodeDeadlineExceeded, PlainErr("hello")),
      <<FmtLayer("ctx: ")>> \o NewError(CodeDeadlineExceeded, PlainErr("hello")),
      <<RpcLayer(0)>>,
      NewExitError(3, PlainErr("exit status")),
      <<FmtLayer("run: ")>> \o NewExitError(2, PlainErr("exit status")),
      <<ExitLayer(0)>>,
      NewExitError(0, NewExitError(3, PlainErr("exit status"))),
      NewError(CodeUnknown, NewExitError(2, PlainErr("exit status"))) }

MessagePool == {"", "boom"}

(* The Errors a program can hold: what NewError returns, and the zero value *)
(* of the exported struct type.                                             *)
ErrorValues ==
    {NewError(c, u) : c \in 0..(maxCode + 1),
                      u \in {NilErr, PlainErr(""), PlainErr("boom"),
                              <<FmtLayer("ctx: ")>> \o PlainErr("boom")}}
        \cup {<<RpcLayer(0)>>}

ErrorInputs ==
    {[op |-> "NewExitError", code |-> c, err |-> e, msg |-> ""] :
         c \in ExitCodePool, e \in ErrorPool}
    \cup {[op |-> op, code |-> 0, err |-> e, msg |-> ""] :
              op \in {"WrapExitError", "WrapError"}, e \in ErrorPool}
    \cup {[op |-> "NewError", code |-> c, err |-> e, msg |-> ""] :
              c \in 0..(maxCode + 1), e \in ErrorPool}
    \cup {[op |-> "NewErrorf", code |-> c, err |-> NilErr, msg |-> m] :
              c \in 0..(maxCode + 1), m \in MessagePool}
    \cup {[op |-> "NewErrorForProto", code |-> c, err |-> NilErr, msg |-> m] :
              c \in 0..(maxCode + 1), m \in MessagePool}
    \cup {[op |-> "NewErrorForProto(nil)", code |-> 0, err |-> NilErr, msg |-> ""]}
    \cup {[op |-> "ToProto", code |-> 0, err |-> e, msg |-> ""] : e \in ErrorValues}
    \cup {[op |-> "Deliver", code |-> f, err |-> e, msg |-> ""] :
              f \in {FormatBinary, FormatJSON}, e \in ErrorPool \ {NilErr}}

InitErrors ==
    /\ ctor \in {[op |-> c.op, code |-> c.code, err |-> c.err, msg |-> c.msg,
                  done |-> FALSE, result |-> NilErr, proto |-> NilProtoError] :
                     c \in ErrorInputs}
    /\ client = Unused
    /\ callers = Unused
    /\ runs = Unused
    /\ last = Unused
    /\ plugin = Unused
    /\ srv = Unused
    /\ reg = Unused
    /\ heap = Unused
    /\ child = Unused

ErrReturn(op, result) ==
    /\ ~ctor.done
    /\ ctor.op = op
    /\ ctor' = [ctor EXCEPT !.done = TRUE, !.result = result]
    /\ UNCHANGED <<client, callers, runs, last, plugin, srv, reg, heap, child>>

ErrNewExitError == ErrReturn("NewExitError", NewExitError(ctor.code, ctor.err))

ErrWrapExitError == ErrReturn("WrapExitError", WrapExitError(ctor.err))

ErrNewError == ErrReturn("NewError", NewError(ctor.code, ctor.err))

(* NewErrorf(code, format): fmt.Errorf of a format without verbs. *)
ErrNewErrorf == ErrReturn("NewErrorf", NewError(ctor.code, PlainErr(ctor.msg)))

ErrWrapError == ErrReturn("WrapError", WrapError(ctor.err))

ErrNewErrorForProto ==
    ErrReturn("NewErrorForProto", NewErrorForProto(ProtoError(ctor.code, ctor.msg)))

ErrNewErrorForProtoNil ==
    ErrReturn("NewErrorForProto(nil)", NewErrorForProto(NilProtoError))

(* e.ToProto(), and NewErrorForProto of what it gave *)
ErrToProto ==
    /\ ~ctor.done
    /\ ctor.op = "ToProto"
    /\ ctor' = [ctor EXCEPT !.done = TRUE,
                            !.proto = ErrorToProto(ctor.err),
                            !.result = NewErrorForProto(ErrorToProto(ctor.err))]
    /\ UNCHANGED <<client, callers, runs, last, plugin, srv, reg, heap, child>>

(* An error on its way to the client: the plugin's marshalResponse(format, *)
(* nil, err), then the Client's unmarshalResponse of those bytes; the      *)
(* Format is in ctor.code.                                                 *)
ErrDeliver ==
    /\ ~ctor.done
    /\ ctor.op = "Deliver"
    /\ LET sent == marshalResponse(ctor.code, NilValue, ctor.err)
       IN  ctor' = [ctor EXCEPT
               !.done = TRUE,
               !.proto = ErrorToProto(WrapError(ctor.err)),
               !.result = unmarshalResponse(ctor.code, sent.data, NilValue).err]
    /\ UNCHANGED <<client, callers, runs, last, plugin, srv, reg, heap, child>>

NextErrors ==
    \/ ErrToProto
    \/ ErrDeliver
    \/ ErrNewExitError
    \/ ErrWrapExitError
    \/ ErrNewError
    \/ ErrNewErrorf
    \/ ErrWrapError
    \/ ErrNewErrorForProto
    \/ ErrNewErrorForProtoNil

SpecErrors == InitErrors /\ [][NextErrors]_vars

(* The outermost ExitError of the chain of ctor.err is at layer i. *)
OutermostExitAt(i) ==
    /\ ctor.err[i].t = "exit"
    /\ \A j \in 1..(i - 1) : ctor.err[j].t # "exit"

(* C22: NewExitError(0, e) has exit code 1 and NewExitError(c, e) with c # 0  *)
(* has exit code c and underlying e; WrapExitError(nil) is nil, WrapExitError *)
(* of an error whose chain has an ExitError, the outermost one having a       *)
(* non-zero code, is that ExitError unchanged, and of any other error is an   *)
(* ExitError with code 1 around it; so no ExitError returned has code 0.      *)
C22_ExitCodeNeverZero ==
    /\ ctor.done /\ ctor.op = "NewExitError" =>
           /\ IsExitError(ctor.result)
           /\ ExitCode(ctor.result) # 0
           /\ ExitCode(ctor.result) = (IF ctor.code = 0 THEN 1 ELSE ctor.code)
           /\ ctor.code # 0 => Tail(ctor.result) = ctor.err
    /\ ctor.done /\ ctor.op = "WrapExitError" =>
           /\ (ctor.result = NilErr) = (ctor.err = NilErr)
           /\ ctor.err # NilErr =>
                  /\ IsExitError(ctor.result)
                  /\ ExitCode(ctor.result) # 0
           /\ \A i \in 1..Len(ctor.err) :
                  OutermostExitAt(i) /\ ctor.err[i].code # 0 =>
                      ctor.result = SubSeq(ctor.err, i, Len(ctor.err))
           /\ ctor.err # NilErr /\ (\A i \in 1..Len(ctor.err) : ctor.err[i].t # "exit") =>
                  /\ ExitCode(ctor.result) = 1
                  /\ Tail(ctor.result) = ctor.err
           /\ \A i \in 1..Len(ctor.err) :
                  OutermostExitAt(i) /\ ctor.err[i].code = 0 =>
                      /\ ExitCode(ctor.result) = 1
                      /\ ErrorsAs(Tail(ctor.result), "exit")
                             = SubSeq(ctor.err, i, Len(ctor.err))

(* NewExitError(0, boom) returned an ExitError with code 1. *)
C22_Witness ==
    /\ ctor.done
    /\ ctor.op = "NewExitError"
    /\ ctor.code = 0
    /\ ctor.err = PlainErr("boom")
    /\ ExitCode(ctor.result) = 1

(* The constructor called returns an Error. *)
ErrorCtorDone ==
    ctor.done /\ ctor.op \in {"NewError", "NewErrorf", "WrapError",
                              "NewErrorForProto", "NewErrorForProto(nil)"}

(* The message that explains why an Error made of code and underlying was *)
(* replaced.                                                              *)
Explanation(code, underlying) ==
    IF code < 1 \/ code > 16
    THEN "Error created with code code_" \o Decimal(code) \o ": "
             \o (IF underlying = NilErr THEN "%!w(<nil>)" ELSE ErrorString(underlying))
    ELSE IF underlying = NilErr
    THEN "Error created with code " \o CodeNames[code] \o " and nil underlying error"
    ELSE "Error created with code " \o CodeNames[code] \o " and empty underlying error"

(* The result is what NewError gives for code and underlying: the Error of *)
(* the two when the code is in 1..16 and the underlying has a non-empty    *)
(* message, an Internal Error with the explanation otherwise.              *)
NormalizedFrom(code, underlying) ==
    IF code \in 1..16 /\ underlying # NilErr /\ ErrorString(underlying) # ""
    THEN /\ ErrorCode(ctor.result) = code
         /\ ErrorUnwrap(ctor.result) = underlying
    ELSE /\ ErrorCode(ctor.result) = 13
         /\ ErrorString(ErrorUnwrap(ctor.result)) = Explanation(code, underlying)

IsNormalized(e) ==
    /\ ErrorCode(e) \in 1..16
    /\ ErrorUnwrap(e) # NilErr
    /\ ErrorString(ErrorUnwrap(e)) # ""

(* C37: for every Error e, e.ToProto() has a code in 1..16 and a non-empty  *)
(* message; for a normalized e, NewErrorForProto(e.ToProto()) has the Code   *)
(* of e and its message; and NewErrorForProto of a wire error whose code is  *)
(* outside 1..16 is an Error with code Internal.                             *)
C37_WireErrorLossless ==
    /\ ctor.done /\ ctor.op = "ToProto" =>
           /\ ctor.proto.present
           /\ ctor.proto.code \in 1..16
           /\ ctor.proto.message # ""
           /\ IsNormalized(ctor.err) =>
                  /\ ctor.proto.code = ErrorCode(ctor.err)
                  /\ ctor.proto.message = ErrorString(ErrorUnwrap(ctor.err))
                  /\ ErrorCode(ctor.result) = ErrorCode(ctor.err)
                  /\ ErrorString(ErrorUnwrap(ctor.result))
                         = ErrorString(ErrorUnwrap(ctor.err))
                  /\ ErrorString(ctor.result) = ErrorString(ctor.err)
    /\ ctor.done /\ ctor.op = "NewErrorForProto" /\ ctor.code \notin 1..16 =>
           /\ IsRpcError(ctor.result)
           /\ ErrorCode(ctor.result) = CodeInternal

(* The Error unauthenticated "ctx: boom" went to the wire and came back. *)
C37_Witness ==
    /\ ctor.done
    /\ ctor.op = "ToProto"
    /\ ctor.err = NewError(maxCode, <<FmtLayer("ctx: ")>> \o PlainErr("boom"))
    /\ ctor.proto = ProtoError(maxCode, "ctx: boom")
    /\ ErrorCode(ctor.result) = maxCode
    /\ ErrorString(ErrorUnwrap(ctor.result)) = "ctx: boom"

(* The chain of ctor.err holds no Error; its first Error is at layer i. *)
NoErrorInChain == \A i \in 1..Len(ctor.err) : ctor.err[i].t # "rpc"

FirstErrorAt(i) ==
    /\ ctor.err[i].t = "rpc"
    /\ \A j \in 1..(i - 1) : ctor.err[j].t # "rpc"

(* WrapError, or the delivery of an error to the client, was given an error *)
(* that is not nil and has no Error in its chain.                           *)
OtherErrorWrapped ==
    /\ ctor.done
    /\ ctor.op \in {"WrapError", "Deliver"}
    /\ ctor.err # NilErr
    /\ NoErrorInChain

MaxHeld == 2

(* slices.Clone(s): a new array with the elements of s. *)
slicesCloneShared(arrays, addr) == [arrays |-> arrays, addr |-> addr]

slicesClone(arrays, addr) ==
    [arrays |-> Append(arrays, arrays[addr]), addr |-> Len(arrays) + 1]

(* The procedure structs: the two of the plugin's Spec, and one of the     *)
(* holder's own.  args is the address of the array behind procedure.args.  *)
HeapProcedures ==
    <<[path |-> PathA, args |-> 2], [path |-> PathB, args |-> 3],
      [path |-> PathC, args |-> 4]>>

(* spec.procedures is the slice at address 1; spec.pathToProcedure maps  *)
(* each path to its procedure struct.                                    *)
SpecAddr == 1

HeapPathToProcedure == [path \in {PathA, PathB} |-> IF path = PathA THEN 1 ELSE 2]

(* The arrays after NewSpec(PluginProcedures) and the holder's procedure. *)
InitArrays == <<<<1, 2>>, <<>>, <<ArgFo, ArgBa>>, <<ArgBa, ArgFo>>>>

(* The procedure struct ref as a value: its path and the elements of its args. *)
ProcedureAt(arrays, ref) ==
    Procedure(HeapProcedures[ref].path, arrays[HeapProcedures[ref].args])

(* The Spec as the library reads it off the heap. *)
SpecAt(arrays) ==
    [kind |-> "spec",
     procedures |-> [i \in 1..Len(arrays[SpecAddr]) |->
                        ProcedureAt(arrays, arrays[SpecAddr][i])],
     pathToProcedure |-> [path \in DOMAIN HeapPathToProcedure |->
                             ProcedureAt(arrays, HeapPathToProcedure[path])]]

(* What the holder may store into a slice it holds. *)
Storable(kind) ==
    IF kind = "procedures" THEN 1..3 ELSE {ArgFo, ArgBa, <<"z", "z">>}

NoObservation == [op |-> "none", input |-> <<>>, result |-> <<>>, dirty |-> FALSE]

InitAccessors ==
    /\ heap = [arrays |-> InitArrays, held |-> <<>>, dirty |-> FALSE,
               obs |-> NoObservation]
    /\ client = Unused
    /\ callers = Unused
    /\ runs = Unused
    /\ last = Unused
    /\ plugin = Unused
    /\ srv = Unused
    /\ ctor = Unused
    /\ reg = Unused
    /\ child = Unused

AccUnchanged == UNCHANGED <<client, callers, runs, last, plugin, srv, ctor, reg, child>>

Observation(op, input, result) ==
    [op |-> op, input |-> input, result |-> result, dirty |-> heap.dirty]

(* The holder keeps the slice an accessor returned. *)
AccHold(op, input, kind, cloned) ==
    /\ Len(heap.held) < MaxHeld
    /\ heap' = [heap EXCEPT !.arrays = cloned.arrays,
                            !.held = Append(@, [addr |-> cloned.addr, kind |-> kind]),
                            !.obs = Observation(op, input, cloned.arrays[cloned.addr])]
    /\ AccUnchanged

(* spec.Procedures() *)
AccProcedures ==
    AccHold("Procedures", <<>>, "procedures", slicesClone(heap.arrays, SpecAddr))

(* procedure.Args() on a procedure of the Spec *)
AccArgs ==
    \E ref \in 1..2 :
        AccHold("Args", ref, "args",
                slicesClone(heap.arrays, HeapProcedures[ref].args))

(* held[i] = v, by the holder, on a slice an accessor returned *)
AccMutate ==
    /\ \E h \in 1..Len(heap.held) :
           \E i \in 1..Len(heap.arrays[heap.held[h].addr]) :
               \E v \in Storable(heap.held[h].kind) :
                   /\ heap.arrays[heap.held[h].addr][i] # v
                   /\ heap' = [heap EXCEPT !.arrays[heap.held[h].addr][i] = v,
                                           !.dirty = TRUE]
    /\ AccUnchanged

(* spec.ProcedureForPath(path) *)
AccProcedureForPath ==
    /\ \E path \in {PathA, PathB, PathC} :
           heap' = [heap EXCEPT !.obs = Observation("ProcedureForPath", path,
                                            ProcedureForPath(SpecAt(heap.arrays), path))]
    /\ AccUnchanged

(* The Server's scan of s.spec.Procedures() for the positional args. *)
AccServe ==
    /\ \E args \in {<<PathA>>, <<PathB>>, <<ArgFo, ArgBa>>, <<ArgBa, ArgFo>>, <<PathC>>} :
           heap' = [heap EXCEPT !.obs = Observation("Serve", args,
                                            FirstMatch(Procedures(SpecAt(heap.arrays)), args))]
    /\ AccUnchanged

(* The Client's args for a Call of path: ProcedureForPath, then Args(). *)
AccCall ==
    /\ \E path \in {PathA, PathB} :
           heap' = [heap EXCEPT !.obs = Observation("Call", path,
                                            CallArgs(ProcedureForPath(SpecAt(heap.arrays), path),
                                                     FormatBinary))]
    /\ AccUnchanged

NextAccessors ==
    \/ AccProcedures
    \/ AccArgs
    \/ AccMutate
    \/ AccProcedureForPath
    \/ AccServe
    \/ AccCall

SpecAccessors == InitAccessors /\ [][NextAccessors]_vars

(* The Spec as constructed. *)
ConstructedSpec == NewSpec(PluginProcedures).spec

(* C24: whatever the holder stores into the slices that Procedures() and     *)
(* Args() returned, the arrays behind the Spec and its procedures stay as    *)
(* constructed, and every later Procedures(), Args() and ProcedureForPath    *)
(* call, the Server's dispatch and the Client's args give what they give on  *)
(* the Spec as constructed.                                                  *)
C24_DefensiveCopies ==
    /\ \A a \in 1..Len(InitArrays) : heap.arrays[a] = InitArrays[a]
    /\ heap.obs.op = "Procedures" => heap.obs.result = <<1, 2>>
    /\ heap.obs.op = "Args" => heap.obs.result = PluginProcedures[heap.obs.input].args
    /\ heap.obs.op = "ProcedureForPath" =>
           heap.obs.result = ProcedureForPath(ConstructedSpec, heap.obs.input)
    /\ heap.obs.op = "Serve" =>
           heap.obs.result = FirstMatch(PluginProcedures, heap.obs.input)
    /\ heap.obs.op = "Call" =>
           heap.obs.result
               = CallArgs(ProcedureForPath(ConstructedSpec, heap.obs.input), FormatBinary)

(* The holder has overwritten both slices it got, one from Procedures() and *)
(* one from Args(), and the Server still dispatches "fo ba" to /b.          *)
C24_Witness ==
    /\ Len(heap.held) = 2
    /\ heap.held[1].kind = "procedures"
    /\ heap.held[2].kind = "args"
    /\ heap.arrays[heap.held[1].addr] = <<3, 3>>
    /\ heap.arrays[heap.held[2].addr] = <<ArgBa, ArgFo>>
    /\ heap.obs.op = "Serve"
    /\ heap.obs.dirty
    /\ heap.obs.input = <<ArgFo, ArgBa>>
    /\ heap.obs.result = 2

(***************************************************************************)
(* The constructor inputs.  ProcedureWithArgs(args...) and                 *)
(* NewSpec(procedures...) are handed slices of their caller, who keeps     *)
(* them: the array behind the args of /b and the array behind the          *)
(* procedures are those of InitArrays, and the caller may store into them. *)
(***************************************************************************)
(* The arrays the caller of the constructors still holds, and their kind. *)
InputArrays ==
    { [addr |-> SpecAddr, kind |-> "procedures"],
      [addr |-> HeapProcedures[2].args, kind |-> "args"] }

(* input[i] = v, by the caller, on a slice it passed to a constructor *)
InMutate ==
    /\ \E in \in InputArrays :
           \E i \in 1..Len(heap.arrays[in.addr]) :
               \E v \in Storable(in.kind) :
                   /\ heap.arrays[in.addr][i] # v
                   /\ heap' = [heap EXCEPT !.arrays[in.addr][i] = v,
                                           !.dirty = TRUE]
    /\ AccUnchanged

NextInputs ==
    \/ InMutate
    \/ AccProcedures
    \/ AccArgs
    \/ AccProcedureForPath

SpecInputs == InitAccessors /\ [][NextInputs]_vars

(* Procedures() and ProcedureForPath agree: each procedure listed is the one *)
(* found under its path.                                                     *)
IndexAgrees(spec) ==
    \A k \in 1..Len(Procedures(spec)) :
        ProcedureForPath(spec, Procedures(spec)[k].path)
            = [path |-> Procedures(spec)[k].path,
               args |-> Procedures(spec)[k].args, isNil |-> FALSE]

(* C39, as stated: whatever the caller stores into the args slice it passed *)
(* to ProcedureWithArgs or into the procedures slice it passed to NewSpec,  *)
(* Args() and Procedures() return what they returned at construction, and   *)
(* Procedures() and ProcedureForPath agree.                                 *)
C39_AsStated ==
    /\ heap.obs.op = "Procedures" => heap.obs.result = <<1, 2>>
    /\ heap.obs.op = "Args" => heap.obs.result = PluginProcedures[heap.obs.input].args
    /\ heap.obs.op = "ProcedureForPath" =>
           heap.obs.result = ProcedureForPath(ConstructedSpec, heap.obs.input)
    /\ IndexAgrees(SpecAt(heap.arrays))

(***************************************************************************)
(* The subprocess specification: NumRuns runs of execRunner.Run with the   *)
(* same Env, each in a host process with an environment of its own.        *)
(***************************************************************************)
NumRuns == 2

emptyEnv == <<"__EMPTY_ENV=1">>

(* The environments a host process may have. *)
HostEnvs ==
    { <<>>, <<"PATH=/bin">>, <<"HOME=/root", "PATH=/bin">>, <<"__EMPTY_ENV=0">>,
      <<"__EMPTY_ENV=1">>, <<"SECRET=x", "__EMPTY_ENV=1">> }

(* The Envs a caller of Run may pass: args, and stdio slots set or nil. *)
RunEnvs ==
    [Args : {<<ProtocolFlag>>, <<PathA, FormatFlag, formatJSONString>>},
     Stdin : {"nil", "reader"}, Stdout : {"nil", "writer"}, Stderr : {"nil", "writer"}]

NoCmd == [started |-> FALSE, Args |-> <<>>, Env |-> "nil",
          Stdin |-> "nil", Stdout |-> "nil", Stderr |-> "nil"]

(* The exec.Cmd that Run builds and starts; discardReader is the reader *)
(* whose Read returns 0 bytes and io.EOF.                               *)
execCmdInheriting(programBaseArgs, env) ==
    [started |-> TRUE,
     Args |-> programBaseArgs \o env.Args,
     Env |-> "nil",
     Stdin |-> env.Stdin,
     Stdout |-> env.Stdout,
     Stderr |-> env.Stderr]

execCmd(programBaseArgs, env) ==
    [started |-> TRUE,
     Args |-> programBaseArgs \o env.Args,
     Env |-> emptyEnv,
     Stdin |-> IF env.Stdin = "nil" THEN "discardReader" ELSE env.Stdin,
     Stdout |-> IF env.Stdout = "nil" THEN "io.Discard" ELSE env.Stdout,
     Stderr |-> IF env.Stderr = "nil" THEN "io.Discard" ELSE env.Stderr]

(* os/exec: a command with a nil Env runs in the environment of the host. *)
ChildEnviron(cmd, host) == IF cmd.Env = "nil" THEN host ELSE cmd.Env

InitExec ==
    /\ \E hosts \in [1..NumRuns -> HostEnvs], env \in RunEnvs,
          programBaseArgs \in {<<>>, <<<<"s", "u", "b">>>>} :
           child = [hosts |-> hosts, env |-> env, programBaseArgs |-> programBaseArgs,
                    cmds |-> [k \in 1..NumRuns |-> NoCmd],
                    environ |-> [k \in 1..NumRuns |-> <<>>]]
    /\ client = Unused
    /\ callers = Unused
    /\ runs = Unused
    /\ last = Unused
    /\ plugin = Unused
    /\ srv = Unused
    /\ ctor = Unused
    /\ reg = Unused
    /\ heap = Unused

(* execRunner.Run(ctx, env) in host process k, up to the start of the child. *)
ExecRun(k) ==
    /\ ~child.cmds[k].started
    /\ child' = [child EXCEPT
                    !.cmds[k] = execCmd(child.programBaseArgs, child.env),
                    !.environ[k] = ChildEnviron(execCmd(child.programBaseArgs, child.env),
                                                child.hosts[k])]
    /\ UNCHANGED <<client, callers, runs, last, plugin, srv, ctor, reg, heap>>

NextExec == \E k \in 1..NumRuns : ExecRun(k)

SpecExec == InitExec /\ [][NextExec]_vars

(* C28: the child of the subprocess runner gets exactly the environment     *)
(* __EMPTY_ENV=1 whatever the environment of the host is, so two runs that  *)
(* differ only in the host give their children the same environment, args   *)
(* and stdio; a nil Stdin is replaced by a reader that is at EOF, a nil     *)
(* Stdout or Stderr by a discarding writer, and a set slot is passed on.    *)
C28_EmptyEnvironment ==
    /\ \A k \in 1..NumRuns :
           child.cmds[k].started =>
               /\ child.environ[k] = <<"__EMPTY_ENV=1">>
               /\ child.cmds[k].Stdin
                      = (IF child.env.Stdin = "nil" THEN "discardReader" ELSE "reader")
               /\ child.cmds[k].Stdout
                      = (IF child.env.Stdout = "nil" THEN "io.Discard" ELSE "writer")
               /\ child.cmds[k].Stderr
                      = (IF child.env.Stderr = "nil" THEN "io.Discard" ELSE "writer")
    /\ \A j, k \in 1..NumRuns :
           child.cmds[j].started /\ child.cmds[k].started =>
               /\ child.environ[j] = child.environ[k]
               /\ child.cmds[j] = child.cmds[k]

(* Two runs in hosts with different environments, with no stdio given. *)
C28_Witness ==
    /\ child.cmds[1].started
    /\ child.cmds[2].started
    /\ child.hosts[1] = <<"HOME=/root", "PATH=/bin">>
    /\ child.hosts[2] = <<"__EMPTY_ENV=0">>
    /\ child.env.Stdin = "nil"
    /\ child.env.Stdout = "nil"
    /\ child.environ[1] = child.environ[2]
    /\ child.cmds[1].Stdin = "discardReader"

(***************************************************************************)
(* The argv specification.  The callers of one Client build their args     *)
(* concurrently: each Call takes procedure.Args(), appends the format flag *)
(* and hands the result to the subprocess runner, which appends it to its  *)
(* base args.  A slice is an address and a length; the array behind it has *)
(* as many cells as the slice's capacity, and append writes in place when  *)
(* the capacity allows it.  The spare capacity of the arrays behind the    *)
(* stored args and the base args, and of arrays that slices.Clone makes,   *)
(* is left open.  The allocator gives caller i the address ArgsAt(i) for   *)
(* the array of its args; an array nothing refers to any more is dropped.  *)
(***************************************************************************)
MaxSpare == 2

NilSlice == [addr |-> 0, len |-> 0]

Zeros(n) == [k \in 1..n |-> <<>>]

(* The elements and the capacity of the slice s. *)
Elems(arrays, s) == IF s.addr = 0 THEN <<>> ELSE SubSeq(arrays[s.addr], 1, s.len)
Cap(arrays, s) == IF s.addr = 0 THEN 0 ELSE Len(arrays[s.addr])

(* make: a new array at the address at, with the elements xs and spare cells. *)
Alloc(arrays, at, xs, spare) ==
    [arrays |-> [k \in 1..(IF at > Len(arrays) THEN at ELSE Len(arrays)) |->
                    IF k = at THEN xs \o Zeros(spare)
                    ELSE IF k <= Len(arrays) THEN arrays[k] ELSE <<>>],
     slice |-> [addr |-> at, len |-> Len(xs)]]

CloneSharing(arrays, s, at, spare) == [arrays |-> arrays, slice |-> s]

(* slices.Clone(s): nil for nil, else a new array with the elements of s. *)
Clone(arrays, s, at, spare) ==
    IF s.addr = 0 THEN [arrays |-> arrays, slice |-> NilSlice]
    ELSE Alloc(arrays, at, Elems(arrays, s), spare)

(* append(s, xs...): in place when cap(s) allows it, else into a new array. *)
GoAppend(arrays, s, at, xs) ==
    IF xs = <<>> THEN [arrays |-> arrays, slice |-> s]
    ELSE IF s.len + Len(xs) <= Cap(arrays, s)
    THEN [arrays |-> [arrays EXCEPT ![s.addr] =
                         [k \in 1..Len(@) |->
                             IF k > s.len /\ k <= s.len + Len(xs)
                             THEN xs[k - s.len] ELSE @[k]]],
          slice |-> [addr |-> s.addr, len |-> s.len + Len(xs)]]
    ELSE Alloc(arrays, at, Elems(arrays, s) \o xs, 0)

(* The arrays of the Client's world: the args of the procedure /b of the *)
(* cached Spec (the procedure /a has none) and the runner's base args.   *)
BaseArg == <<"r", "u", "n">>
StoredArgs == [path \in {PathA, PathB} |->
                  IF path = PathB THEN [addr |-> 1, len |-> 2] ELSE NilSlice]
programBaseArgs == [addr |-> 2, len |-> 1]

ArgvArrays(spareArgs, spareBase) ==
    <<<<ArgFo, ArgBa>> \o Zeros(spareArgs), <<BaseArg>> \o Zeros(spareBase)>>
        \o [i \in Callers |-> <<>>]

ArgsAt(i) == 2 + i
ArgvAt == 2 + NumCallers + 1

ArgvRequests == {"ping", "pong"}

IdleArgv ==
    [pc |-> "idle", path |-> <<>>, request |-> "", args |-> NilSlice,
     argv |-> <<>>, stdin |-> "", stdout |-> 0, response |-> <<>>]

InitArgv ==
    /\ \E spareArgs \in 0..MaxSpare, spareBase \in 0..MaxSpare,
          format \in {FormatBinary, FormatJSON} :
           heap = [arrays |-> ArgvArrays(spareArgs, spareBase),
                   init |-> ArgvArrays(spareArgs, spareBase),
                   buffers |-> [i \in Callers |-> <<>>], format |-> format,
                   calls |-> [i \in Callers |-> IdleArgv]]
    /\ client = Unused
    /\ callers = Unused
    /\ runs = Unused
    /\ last = Unused
    /\ plugin = Unused
    /\ srv = Unused
    /\ ctor = Unused
    /\ reg = Unused
    /\ child = Unused

(* Call(path, request, response) begins; the Spec is cached. *)
ArgvCall(i) ==
    /\ heap.calls[i].pc = "idle"
    /\ \E path \in {PathA, PathB}, request \in ArgvRequests :
           heap' = [heap EXCEPT !.calls[i] =
                       [@ EXCEPT !.pc = "args", !.path = path, !.request = request]]
    /\ AccUnchanged

(* stdout := bytes.NewBuffer(nil); args := procedure.Args(); *)
(* if len(args) == 0 { args = []string{procedure.Path()} }   *)
ArgvArgs(i) ==
    /\ heap.calls[i].pc = "args"
    /\ \E spare \in {0, MaxSpare} :
           LET path == heap.calls[i].path
               cloned == Clone(heap.arrays, StoredArgs[path], ArgsAt(i), spare)
               args == IF cloned.slice.len = 0
                       THEN Alloc(cloned.arrays, ArgsAt(i), <<path>>, 0)
                       ELSE cloned
           IN  heap' = [heap EXCEPT
                   !.arrays = args.arrays,
                   !.calls[i] = [@ EXCEPT !.pc = "append", !.args = args.slice,
                                          !.stdin = heap.calls[i].request,
                                          !.stdout = i]]
    /\ AccUnchanged

(* args = append(args, "--format", c.format.String()) *)
ArgvAppend(i) ==
    /\ heap.calls[i].pc = "append"
    /\ LET appended == GoAppend(heap.arrays, heap.calls[i].args, ArgsAt(i),
                                <<FormatFlag, FormatString(heap.format)>>)
       IN  heap' = [heap EXCEPT
               !.arrays = appended.arrays,
               !.calls[i] = [@ EXCEPT !.pc = "run", !.args = appended.slice]]
    /\ AccUnchanged

(* execRunner.Run: the child gets                                        *)
(* append(slices.Clone(e.programBaseArgs), env.Args...) and env.Stdin,   *)
(* and answers on env.Stdout with what it was asked.                     *)
ArgvRun(i) ==
    /\ heap.calls[i].pc = "run"
    /\ \E spare \in {0, MaxSpare} :
           LET cloned == Clone(heap.arrays, programBaseArgs, ArgvAt, spare)
               argv == GoAppend(cloned.arrays, cloned.slice, ArgvAt,
                                Elems(heap.arrays, heap.calls[i].args))
           IN  heap' = [heap EXCEPT
                   !.arrays = SubSeq(argv.arrays, 1, Len(heap.arrays)),
                   !.buffers[heap.calls[i].stdout] =
                       <<Elems(argv.arrays, argv.slice), heap.calls[i].stdin>>,
                   !.calls[i] = [@ EXCEPT !.pc = "decode",
                                          !.argv = Elems(argv.arrays, argv.slice)]]
    /\ AccUnchanged

(* return unmarshalResponse(c.format, stdout.Bytes(), response) *)
ArgvDecode(i) ==
    /\ heap.calls[i].pc = "decode"
    /\ heap' = [heap EXCEPT
           !.calls[i] = [@ EXCEPT !.pc = "done",
                                  !.response = heap.buffers[heap.calls[i].stdout]]]
    /\ AccUnchanged

NextArgv ==
    \/ \E i \in Callers : ArgvCall(i)
    \/ \E i \in Callers : ArgvArgs(i)
    \/ \E i \in Callers : ArgvAppend(i)
    \/ \E i \in Callers : ArgvRun(i)
    \/ \E i \in Callers : ArgvDecode(i)

SpecArgv == InitArgv /\ [][NextArgv]_vars

(* The args Call i has to give the Runner, and the argv of its child. *)
OwnArgs(i) ==
    CallArgs(Procedure(heap.calls[i].path,
                       IF heap.calls[i].path = PathB THEN <<ArgFo, ArgBa>> ELSE <<>>),
             heap.format)

(* C35: under every interleaving of the callers, the args a Call holds when *)
(* it invokes the Runner are those of its own procedure, the child gets the *)
(* base args followed by them and the call's own request on stdin, the Call *)
(* decodes what its own child answered, and the arrays behind the args of   *)
(* the cached Spec and behind the base args, spare cells included, stay as  *)
(* they were.                                                               *)
C35_CallsIndependent ==
    /\ heap.arrays[StoredArgs[PathB].addr] = heap.init[StoredArgs[PathB].addr]
    /\ heap.arrays[programBaseArgs.addr] = heap.init[programBaseArgs.addr]
    /\ \A i \in Callers :
           /\ heap.calls[i].pc = "run" =>
                  Elems(heap.arrays, heap.calls[i].args) = OwnArgs(i)
           /\ heap.calls[i].pc \in {"decode", "done"} =>
                  /\ heap.calls[i].argv = <<BaseArg>> \o OwnArgs(i)
                  /\ heap.buffers[heap.calls[i].stdout]
                         = <<<<BaseArg>> \o OwnArgs(i), heap.calls[i].request>>
           /\ heap.calls[i].pc = "done" =>
                  heap.calls[i].response
                      = <<<<BaseArg>> \o OwnArgs(i), heap.calls[i].request>>
    /\ \A i, j \in Callers :
           i # j /\ heap.calls[i].pc # "idle" /\ heap.calls[j].pc # "idle" =>
               /\ heap.calls[i].args.addr = 0
                      \/ heap.calls[i].args.addr # heap.calls[j].args.addr
               /\ heap.calls[i].stdout = 0
                      \/ heap.calls[i].stdout # heap.calls[j].stdout

(* Two Calls of the procedure with args, with different requests, on a Spec *)
(* whose args array has spare cells: one has its answer while the other is  *)
(* about to run.                                                            *)
C35_Witness ==
    /\ Len(heap.init[1]) = 2 + MaxSpare
    /\ heap.calls[1].pc = "done"
    /\ heap.calls[2].pc = "run"
    /\ heap.calls[1].path = PathB
    /\ heap.calls[2].path = PathB
    /\ heap.calls[1].request = "ping"
    /\ heap.calls[2].request = "pong"
    /\ heap.calls[1].response[2] = "ping"

====
